---- MODULE Spec2Model ----
(***************************************************************************)
(* SpoolBuddy backend: the print-session tracker and the weight estimator  *)
(* (usage_tracker.py), the telemetry callbacks of main.py that drive the   *)
(* tracker, main.py's display liveness monitor and its WebSocket           *)
(* broadcast hub.                                                          *)
(*                                                                         *)
(* Python's Optional values are modelled as sequences of length 0 or 1:    *)
(* None is <<>> and a present value x is <<x>>.  Python dicts are TLA+     *)
(* functions whose DOMAIN is the dict's key set.                           *)
(***************************************************************************)
EXTENDS Integers, Sequences, FiniteSets, TLC

None == <<>>
Some(x) == <<x>>

\* ---------------------------------------------------------------------
\* Bounds of the model
\* ---------------------------------------------------------------------

\* Longest recorded run of telemetry snapshots (SpecTrace only).
MaxJournal == 3

\* Last second of the clock (SpecLive only).
MaxClock == 14

\* Longest recorded run of mailbox operations (SpecMailbox only).
MaxMailbox == 4

\* Seconds the clock runs for in the watch specification: two timeouts.
MaxWatch == 23

\* Largest remain_percent_used the estimator is called with.
MaxPercent == 100

\* Printer serial numbers
Printers == {"P1", "P2"}

\* remain% values reported for AMS trays / for the external (virtual) tray
TrayRemains == {75, 80}
VtRemains == {40, 50}

\* ---------------------------------------------------------------------
\* PrinterState values delivered by the MQTT layer
\* ---------------------------------------------------------------------

GcodeStates == {"IDLE", "RUNNING", "PAUSE", "FINISH"}

Tray(tray_id, remain) == [tray_id |-> tray_id, remain |-> remain]

AmsUnit(id, trays) == [id |-> id, trays |-> trays]

OptRemains(vals) == {None} \cup {Some(v) : v \in vals}

\* AMS layouts: no unit at all, or unit 0 with trays 0 and 1.
AmsLayouts ==
    {<<>>} \cup
    {<<AmsUnit(0, <<Tray(0, r0), Tray(1, r1)>>)>> :
        r0 \in OptRemains(TrayRemains), r1 \in OptRemains(TrayRemains)}

\* AMS layouts of the narrow feed: unit 0 with tray 0 only.
NarrowAmsLayouts ==
    {<<AmsUnit(0, <<Tray(0, r0)>>)>> : r0 \in OptRemains(TrayRemains)}

\* vt_tray: absent, or a tray whose remain may itself be None.
VtTrays == {None} \cup {Some([remain |-> r]) : r \in OptRemains(VtRemains)}

NarrowVtTrays == {None, Some([remain |-> Some(40)])}

PrinterState(g, n, a, v) ==
    [gcode_state |-> g, subtask_name |-> n, ams_units |-> a, vt_tray |-> v]

\* Named jobs over the narrow readings.
NarrowPrinterStates ==
    {PrinterState(g, Some("Benchy"), a, v) :
        g \in GcodeStates, a \in NarrowAmsLayouts, v \in NarrowVtTrays}

\* One named job with one reading, in every phase.
PhaseStates ==
    {PrinterState(g, Some("Benchy"), <<AmsUnit(0, <<Tray(0, Some(80))>>)>>,
                  None) : g \in GcodeStates}

\* Named jobs over every reading, unnamed jobs over the narrow readings.
PrinterStates ==
    {PrinterState(g, Some("Benchy"), a, v) :
        g \in GcodeStates, a \in AmsLayouts, v \in VtTrays}
    \cup
    {PrinterState(g, None, a, v) :
        g \in GcodeStates, a \in NarrowAmsLayouts, v \in NarrowVtTrays}

\* ---------------------------------------------------------------------
\* State
\* ---------------------------------------------------------------------

VARIABLES
    printers,           \* serials the printer manager holds a connection for
    started,            \* lifespan startup has registered the MQTT callbacks
    _sessions,          \* UsageTracker._sessions: serial -> Optional PrintSession
    _on_usage_logged,   \* UsageTracker._on_usage_logged (Optional callback)
    _loop,              \* UsageTracker._loop (Optional event loop)
    _previous_states,   \* main._previous_states: serial -> Optional PrinterState
    end_log,            \* "Print completed/failed" records of the last handler
    usage_calls,        \* callbacks handed to the loop by the last handler
    last,               \* the last handler that ran and its arguments
    recording,          \* whether the run of snapshots is journalled
    journal,            \* journalled snapshots with what each one produced
    callback_thread,    \* thread the printer manager calls its callbacks on
    ran_on,             \* thread the last handler ran on
    broadcast_tasks,    \* messages the last handler made a broadcast task for
    compared,           \* prev_state the last journalled handler passed on
    estimate_call,      \* arguments of an estimate_weight_from_percent call
    estimate_result,    \* the float that call returned (Optional)
    clock,                      \* time.time(), in whole seconds
    _display_last_seen,         \* main._display_last_seen (0: never seen)
    _display_connected,         \* main._display_connected
    _display_pending_command,   \* main._display_pending_command (Optional)
    _display_firmware_version,  \* main._display_firmware_version (Optional)
    _device_update_available,   \* main._device_update_available
    check_wake,         \* when check_display_timeout's sleep ends (Optional)
    device_tasks,       \* messages the last display step made a broadcast for
    response,           \* body of the last heartbeat response (Optional)
    live_last,          \* the last display step and the state it found
    display_log,        \* journalled queue and heartbeat calls
    shutdown,           \* where lifespan is with its shutdown part
    websocket_clients,  \* main.websocket_clients
    endpoint,           \* observer -> where its websocket_endpoint call is
    stalled,            \* observers whose socket never completes a send
    bcast,              \* the broadcast_message call in progress or last run
    hub_last,           \* the last hub step
    _update_status,     \* updates._update_status
    background_tasks,   \* update tasks added to a response and not yet run
    update_response,    \* what the last updates request returned (Optional)
    update_last         \* the last updates step and what it found

\* The variables of the telemetry callbacks and the usage tracker.
trackerVars == <<printers, started, _sessions, _on_usage_logged, _loop,
                 _previous_states, end_log, usage_calls, last, recording,
                 journal, callback_thread, ran_on, broadcast_tasks,
                 compared, estimate_call, estimate_result>>

\* The variables of the display liveness monitor.
liveVars == <<clock, _display_last_seen, _display_connected,
              _display_pending_command, _display_firmware_version,
              _device_update_available, check_wake, device_tasks, response,
              live_last, display_log, shutdown>>

\* The variables of the broadcast hub.
hubVars == <<websocket_clients, endpoint, stalled, bcast, hub_last>>

\* The variables of the application update routes.
updateVars == <<_update_status, background_tasks, update_response,
                update_last>>

vars == <<trackerVars, liveVars, hubVars, updateVars>>

\* ---------------------------------------------------------------------
\* usage_tracker.py
\* ---------------------------------------------------------------------

\* Variant of VIRTUAL_KEY that is also the key of AMS 0, tray 0.
VIRTUAL_KEY_AMS0 == <<0, 0>>

VIRTUAL_KEY == <<255, 0>>

\* d[k] = v
DictSet(d, k, v) == [x \in (DOMAIN d) \cup {k} |-> IF x = k THEN v ELSE d[x]]

\* for tray in ams_unit.trays: if tray.remain is not None: d[(id, tray_id)] = remain
RECURSIVE CaptureTrays(_, _, _)
CaptureTrays(d, unit_id, trays) ==
    IF trays = <<>> THEN d
    ELSE LET tray == Head(trays)
             d1 == IF tray.remain # None
                   THEN DictSet(d, <<unit_id, tray.tray_id>>, tray.remain[1])
                   ELSE d
         IN CaptureTrays(d1, unit_id, Tail(trays))

\* for ams_unit in state.ams_units: ...
RECURSIVE CaptureUnits(_, _)
CaptureUnits(d, units) ==
    IF units = <<>> THEN d
    ELSE CaptureUnits(CaptureTrays(d, Head(units).id, Head(units).trays),
                      Tail(units))

\* if state.vt_tray and state.vt_tray.remain is not None: d[(255, 0)] = remain
CaptureVirtual(d, state) ==
    IF state.vt_tray # None /\ state.vt_tray[1].remain # None
    THEN DictSet(d, VIRTUAL_KEY, state.vt_tray[1].remain[1])
    ELSE d

\* The (ams_id, tray_id) -> remain% dict both handlers build from a state.
CaptureRemain(state) == CaptureVirtual(CaptureUnits(<<>>, state.ams_units), state)

PrintSession(serial, state) ==
    [printer_serial |-> serial,
     print_name |-> IF state.subtask_name # None
                    THEN state.subtask_name[1] ELSE "Unknown",
     tray_remain_start |-> CaptureRemain(state)]

\* Variant of TrayUsage that compares with >= and records a zero delta.
TrayUsageNonStrict(tray_remain_start, current_remain) ==
    LET used == {key \in DOMAIN tray_remain_start :
                    /\ key \in DOMAIN current_remain
                    /\ tray_remain_start[key] >= current_remain[key]}
    IN [key \in used |-> tray_remain_start[key] - current_remain[key]]

\* Variant of TrayUsage that records any change, refills included.
TrayUsageAnyChange(tray_remain_start, current_remain) ==
    LET used == {key \in DOMAIN tray_remain_start :
                    /\ key \in DOMAIN current_remain
                    /\ tray_remain_start[key] # current_remain[key]}
    IN [key \in used |->
           IF tray_remain_start[key] > current_remain[key]
           THEN tray_remain_start[key] - current_remain[key]
           ELSE current_remain[key] - tray_remain_start[key]]

\* Variant of TrayUsage that reads a missing end value as 0.
TrayUsageMissingAsZero(tray_remain_start, current_remain) ==
    LET end_remain(key) == IF key \in DOMAIN current_remain
                           THEN current_remain[key] ELSE 0
        used == {key \in DOMAIN tray_remain_start :
                    tray_remain_start[key] > end_remain(key)}
    IN [key \in used |-> tray_remain_start[key] - end_remain(key)]

\* The delta loop of _on_print_end.
TrayUsage(tray_remain_start, current_remain) ==
    LET used == {key \in DOMAIN tray_remain_start :
                    /\ key \in DOMAIN current_remain
                    /\ tray_remain_start[key] > current_remain[key]
                    /\ tray_remain_start[key] - current_remain[key] > 0}
    IN [key \in used |-> tray_remain_start[key] - current_remain[key]]

\* Keys tracked at start for which the end state has no reading (warning only).
LostKeys(tray_remain_start, current_remain) ==
    {key \in DOMAIN tray_remain_start : key \notin DOMAIN current_remain}

\* Variant of Outcome that takes RUNNING after PAUSE as the same print going
\* on, not as a start.
OutcomeResumeIsNoStart(state, prev_state) ==
    LET gcode_state == state.gcode_state
        prev_gcode_state == IF prev_state # None
                            THEN Some(prev_state[1].gcode_state) ELSE None
    IN IF gcode_state = "RUNNING"
          /\ prev_gcode_state \notin {Some("RUNNING"), Some("PAUSE")}
       THEN [kind |-> "start", success |-> FALSE]
       ELSE IF gcode_state \in {"FINISH", "IDLE"}
               /\ prev_gcode_state = Some("RUNNING")
       THEN [kind |-> "end", success |-> (gcode_state = "FINISH")]
       ELSE IF gcode_state = "FINISH" /\ prev_gcode_state = Some("PAUSE")
       THEN [kind |-> "end", success |-> TRUE]
       ELSE [kind |-> "none", success |-> FALSE]

\* Variant of Outcome without the PAUSE -> FINISH rule.
OutcomeNoPauseFinish(state, prev_state) ==
    LET gcode_state == state.gcode_state
        prev_gcode_state == IF prev_state # None
                            THEN Some(prev_state[1].gcode_state) ELSE None
    IN IF gcode_state = "RUNNING" /\ prev_gcode_state # Some("RUNNING")
       THEN [kind |-> "start", success |-> FALSE]
       ELSE IF gcode_state \in {"FINISH", "IDLE"}
               /\ prev_gcode_state = Some("RUNNING")
       THEN [kind |-> "end", success |-> (gcode_state = "FINISH")]
       ELSE [kind |-> "none", success |-> FALSE]

\* Variant of Outcome that ends the session on every FINISH or IDLE state.
OutcomeEndOnAnyTerminal(state, prev_state) ==
    LET gcode_state == state.gcode_state
        prev_gcode_state == IF prev_state # None
                            THEN Some(prev_state[1].gcode_state) ELSE None
    IN IF gcode_state = "RUNNING" /\ prev_gcode_state # Some("RUNNING")
       THEN [kind |-> "start", success |-> FALSE]
       ELSE IF gcode_state \in {"FINISH", "IDLE"}
       THEN [kind |-> "end", success |-> (gcode_state = "FINISH")]
       ELSE [kind |-> "none", success |-> FALSE]

\* Variant of Outcome that starts a session on every RUNNING state.
OutcomeStartOnEveryRunning(state, prev_state) ==
    LET gcode_state == state.gcode_state
        prev_gcode_state == IF prev_state # None
                            THEN Some(prev_state[1].gcode_state) ELSE None
    IN IF gcode_state = "RUNNING"
       THEN [kind |-> "start", success |-> FALSE]
       ELSE IF gcode_state \in {"FINISH", "IDLE"}
               /\ prev_gcode_state = Some("RUNNING")
       THEN [kind |-> "end", success |-> (gcode_state = "FINISH")]
       ELSE IF gcode_state = "FINISH" /\ prev_gcode_state = Some("PAUSE")
       THEN [kind |-> "end", success |-> TRUE]
       ELSE [kind |-> "none", success |-> FALSE]

\* Variant of Outcome that reports every ended print as completed.
OutcomeAlwaysCompleted(state, prev_state) ==
    LET gcode_state == state.gcode_state
        prev_gcode_state == IF prev_state # None
                            THEN Some(prev_state[1].gcode_state) ELSE None
    IN IF gcode_state = "RUNNING" /\ prev_gcode_state # Some("RUNNING")
       THEN [kind |-> "start", success |-> FALSE]
       ELSE IF gcode_state \in {"FINISH", "IDLE"}
               /\ prev_gcode_state = Some("RUNNING")
       THEN [kind |-> "end", success |-> TRUE]
       ELSE IF gcode_state = "FINISH" /\ prev_gcode_state = Some("PAUSE")
       THEN [kind |-> "end", success |-> TRUE]
       ELSE [kind |-> "none", success |-> FALSE]

\* What one call of on_state_update decides.
Outcome(state, prev_state) ==
    LET gcode_state == state.gcode_state
        prev_gcode_state == IF prev_state # None
                            THEN Some(prev_state[1].gcode_state) ELSE None
    IN IF gcode_state = "RUNNING" /\ prev_gcode_state # Some("RUNNING")
       THEN [kind |-> "start", success |-> FALSE]
       ELSE IF gcode_state \in {"FINISH", "IDLE"}
               /\ prev_gcode_state = Some("RUNNING")
       THEN [kind |-> "end", success |-> (gcode_state = "FINISH")]
       ELSE IF gcode_state = "FINISH" /\ prev_gcode_state = Some("PAUSE")
       THEN [kind |-> "end", success |-> TRUE]
       ELSE [kind |-> "none", success |-> FALSE]

\* Variant of OnPrintStart that keeps a session that is already active.
OnPrintStartKeepActive(sessions, serial, state) ==
    IF sessions[serial] # None THEN sessions
    ELSE [sessions EXCEPT ![serial] = Some(PrintSession(serial, state))]

\* _on_print_start: self._sessions[serial] = session
OnPrintStart(sessions, serial, state) ==
    [sessions EXCEPT ![serial] = Some(PrintSession(serial, state))]

\* Variant of PopSession that reads the session without removing it.
PopSessionKeep(sessions, serial) == sessions

\* _on_print_end, first line: self._sessions.pop(serial, None)
PopSession(sessions, serial) == [sessions EXCEPT ![serial] = None]

\* _on_print_end: the "Print completed/failed on ..." record of a session
\* that ended, with the popped session and the end readings it was
\* computed from; nothing when no session was active.
EndRecords(sessions, serial, state, success) ==
    IF sessions[serial] = None THEN <<>>
    ELSE LET session == sessions[serial][1]
         IN <<[serial |-> serial,
               session |-> session,
               current_remain |-> CaptureRemain(state),
               success |-> success,
               tray_usage |-> TrayUsage(session.tray_remain_start,
                                        CaptureRemain(state)),
               lost |-> LostKeys(session.tray_remain_start,
                                 CaptureRemain(state))]>>

\* Variant of NotifyCalls that also notifies an empty tray_usage.
NotifyCallsAlways(sessions, serial, state, callback, loop) ==
    IF sessions[serial] = None THEN <<>>
    ELSE LET session == sessions[serial][1]
             tray_usage == TrayUsage(session.tray_remain_start,
                                     CaptureRemain(state))
         IN IF callback # None /\ loop # None
            THEN <<[serial |-> serial,
                    print_name |-> session.print_name,
                    tray_usage |-> tray_usage]>>
            ELSE <<>>

\* Variant of NotifyCalls that does not look at the loop.
NotifyCallsWithoutLoop(sessions, serial, state, callback, loop) ==
    IF sessions[serial] = None THEN <<>>
    ELSE LET session == sessions[serial][1]
             tray_usage == TrayUsage(session.tray_remain_start,
                                     CaptureRemain(state))
         IN IF tray_usage # <<>> /\ callback # None
            THEN <<[serial |-> serial,
                    print_name |-> session.print_name,
                    tray_usage |-> tray_usage]>>
            ELSE <<>>

\* _on_print_end, last lines: the callback is scheduled on the loop only
\* when tray_usage is non-empty and both callback and loop are set.
NotifyCalls(sessions, serial, state, callback, loop) ==
    IF sessions[serial] = None THEN <<>>
    ELSE LET session == sessions[serial][1]
             tray_usage == TrayUsage(session.tray_remain_start,
                                     CaptureRemain(state))
         IN IF tray_usage # <<>> /\ callback # None /\ loop # None
            THEN <<[serial |-> serial,
                    print_name |-> session.print_name,
                    tray_usage |-> tray_usage]>>
            ELSE <<>>

\* ---------------------------------------------------------------------
\* main.py
\* ---------------------------------------------------------------------

\* Snapshots the MQTT layer may deliver: the full set for a single printer
\* whose run is not journalled, the narrow set otherwise.
Telemetry ==
    IF recording /\ Cardinality(printers) > 1 THEN PhaseStates
    ELSE IF recording \/ Cardinality(printers) > 1 THEN NarrowPrinterStates
    ELSE PrinterStates

\* Variant of the cache write that stores the state for every printer.
StorePreviousForAll(previous, serial, state) ==
    [p \in DOMAIN previous |-> Some(state)]

\* _previous_states[serial] = state.model_copy()
StorePrevious(previous, serial, state) ==
    [previous EXCEPT ![serial] = Some(state)]

\* What the last handler was: its name, the serial it was called with,
\* what on_state_update decided and whether a session was active before.
Handler(op, serial, kind, had_session) ==
    [op |-> op, serial |-> serial, kind |-> kind, had_session |-> had_session]

\* One journal line: a handler call, its state argument and what it produced.
JournalLine(op, serial, state, ended, calls) ==
    [op |-> op, serial |-> serial, state |-> state,
     ended |-> ended, calls |-> calls]

\* The thread the event loop runs on, and the printer manager's MQTT thread.
Threads == {"loop", "mqtt"}

\* asyncio.get_running_loop(): the loop when called on the loop's thread
\* while it runs, None for the RuntimeError raised anywhere else.
GetRunningLoop(thread, running) ==
    IF thread = "loop" /\ running THEN Some("loop") ELSE None

\* try: loop = asyncio.get_running_loop();
\*      loop.create_task(broadcast_message(message))
\* except RuntimeError: pass
CreateBroadcastTask(thread, running, message) ==
    IF GetRunningLoop(thread, running) # None THEN <<message>> ELSE <<>>

\* {"type": "printer_state", "serial": serial, "state": state.model_dump()}
PrinterStateMessage(serial, state) ==
    [type |-> "printer_state", serial |-> serial, state |-> state]

\* ---------------------------------------------------------------------
\* usage_tracker.py: estimate_weight_from_percent
\* ---------------------------------------------------------------------

\* label_weight and core_weight arguments of a call; None: left out.
LabelWeights == {None, Some(250), Some(750), Some(1000)}
CoreWeights == {None, Some(0)}

\* label_weight: int = 1000, core_weight: int = 250
DEFAULT_LABEL_WEIGHT == 1000
DEFAULT_CORE_WEIGHT == 250

WithDefault(arg, default) == IF arg = None THEN default ELSE arg[1]

\* A Python float is an IEEE 754 double.  A positive one is [m, e]: m its
\* significand of MantissaBits binary digits, the most significant (a 1)
\* first, and e the binary exponent of m's last digit.  The values here are
\* far from the overflow and underflow thresholds.
MantissaBits == 53

Zero == [m |-> <<>>, e |-> 0]

\* The arithmetic works on limbs of LimbBits binary digits.
LimbBits == 10
Radix == 2 ^ LimbBits

\* Limbs a long division produces after the binary point.
FractionLimbs == 7

\* The binary digits of a sequence of limbs, most significant first.
Flatten(limbs) ==
    [i \in 1..(Len(limbs) * LimbBits) |->
        (limbs[((i - 1) \div LimbBits) + 1]
            \div 2 ^ (LimbBits - 1 - ((i - 1) % LimbBits))) % 2]

\* The limb made of digits[from .. from + LimbBits - 1].
RECURSIVE LimbAt(_, _, _)
LimbAt(digits, from, n) ==
    IF n = 0 THEN 0
    ELSE 2 * LimbAt(digits, from, n - 1) + digits[from + n - 1]

\* digits without its leading zeros (digits holds a 1).
Significant(digits) ==
    LET first == CHOOSE i \in 1..Len(digits) :
                    /\ digits[i] = 1
                    /\ \A j \in 1..(i - 1) : digits[j] = 0
    IN SubSeq(digits, first, Len(digits))

\* The next double above x > 0.
NextUp(x) ==
    IF \A i \in 1..MantissaBits : x.m[i] = 1
    THEN [m |-> [i \in 1..MantissaBits |-> IF i = 1 THEN 1 ELSE 0],
          e |-> x.e + 1]
    ELSE LET z == CHOOSE i \in 1..MantissaBits :
                     /\ x.m[i] = 0
                     /\ \A j \in (i + 1)..MantissaBits : x.m[j] = 1
         IN [m |-> [i \in 1..MantissaBits |->
                       IF i < z THEN x.m[i] ELSE IF i = z THEN 1 ELSE 0],
             e |-> x.e]

\* Rounding to nearest, ties to even.  digits holds more than MantissaBits
\* binary digits, the first a 1 and the last of exponent e; inexact tells
\* whether the exact value has nonzero digits after them.
RoundNearestEven(digits, e, inexact) ==
    LET n == Len(digits)
        kept == [m |-> SubSeq(digits, 1, MantissaBits),
                 e |-> e + (n - MantissaBits)]
        half == digits[MantissaBits + 1] = 1
        rest == inexact \/ \E i \in (MantissaBits + 2)..n : digits[i] = 1
        odd == digits[MantissaBits] = 1
    IN IF half /\ (rest \/ odd) THEN NextUp(kept) ELSE kept

\* Long division: the first k limbs of r / d after the binary point, for
\* 0 <= r < d.
RECURSIVE DivideLimbs(_, _, _)
DivideLimbs(r, d, k) ==
    IF k = 0 THEN <<>>
    ELSE <<(r * Radix) \div d>> \o DivideLimbs((r * Radix) % d, d, k - 1)

\* What is left of r after k limbs of that division.
RECURSIVE DivideRest(_, _, _)
DivideRest(r, d, k) ==
    IF k = 0 THEN r ELSE DivideRest((r * Radix) % d, d, k - 1)

\* n / d of two floats holding the ints n >= 0 and d > 0, n \div d below
\* Radix * Radix
TrueDivide(n, d) ==
    IF n = 0 THEN Zero
    ELSE RoundNearestEven(
             Significant(Flatten(<<(n \div d) \div Radix, (n \div d) % Radix>>
                                 \o DivideLimbs(n % d, d, FractionLimbs))),
             0 - FractionLimbs * LimbBits,
             DivideRest(n % d, d, FractionLimbs) # 0)

\* The limbs of limbs[1..i] * w + carry, for an int w > 0 below
\* Radix * Radix.
RECURSIVE TimesLimbs(_, _, _, _)
TimesLimbs(limbs, w, i, carry) ==
    IF i = 0 THEN <<carry \div Radix, carry % Radix>>
    ELSE Append(TimesLimbs(limbs, w, i - 1,
                           (limbs[i] * w + carry) \div Radix),
                (limbs[i] * w + carry) % Radix)

\* The significand m as whole limbs: zeros fill the last limb.
SignificandLimbs(m) ==
    LET count == (MantissaBits + LimbBits - 1) \div LimbBits
        padded == [i \in 1..(count * LimbBits) |->
                      IF i <= MantissaBits THEN m[i] ELSE 0]
    IN [j \in 1..count |->
           LimbAt(padded, (j - 1) * LimbBits + 1, LimbBits)]

\* x * w of a float x >= 0 and an int w >= 0 (converted to a float first,
\* exactly)
Multiply(x, w) ==
    IF x = Zero \/ w = 0 THEN Zero
    ELSE LET limbs == SignificandLimbs(x.m)
             fill == Len(limbs) * LimbBits - MantissaBits
         IN RoundNearestEven(
                Significant(Flatten(TimesLimbs(limbs, w, Len(limbs), 0))),
                x.e - fill, FALSE)

\* Variant of the estimator that takes the percentage of the filament left
\* after the core's weight is taken off the label weight.
EstimateNetOfCore(remain_percent_used, label_weight, core_weight) ==
    Multiply(TrueDivide(remain_percent_used, 100),
             IF label_weight > core_weight THEN label_weight - core_weight
                                           ELSE 0)

\* estimate_weight_from_percent:
\* return (remain_percent_used / 100.0) * label_weight
EstimateWeightFromPercent(remain_percent_used, label_weight, core_weight) ==
    Multiply(TrueDivide(remain_percent_used, 100), label_weight)

\* The arguments of a call.
EstimateCall(remain_percent_used, label_weight, core_weight) ==
    [remain_percent_used |-> remain_percent_used,
     label_weight |-> label_weight, core_weight |-> core_weight]

\* A call of estimate_weight_from_percent returns.
CallEstimate ==
    /\ estimate_call # None
    /\ estimate_result = None
    /\ estimate_result' =
          Some(EstimateWeightFromPercent(
                   estimate_call[1].remain_percent_used,
                   WithDefault(estimate_call[1].label_weight,
                               DEFAULT_LABEL_WEIGHT),
                   WithDefault(estimate_call[1].core_weight,
                               DEFAULT_CORE_WEIGHT)))
    /\ UNCHANGED <<estimate_call, printers, started, _sessions,
                   _on_usage_logged, _loop, _previous_states, end_log,
                   usage_calls, last, recording, journal, callback_thread,
                   ran_on, broadcast_tasks, compared>>
    /\ UNCHANGED <<liveVars, hubVars, updateVars>>

\* ---------------------------------------------------------------------
\* main.py: the display liveness monitor
\* ---------------------------------------------------------------------

DISPLAY_TIMEOUT_SEC == 10

\* await asyncio.sleep(2) in check_display_timeout
CHECK_PERIOD == 2

\* version and update_available query parameters of the heartbeat
Versions == {None, Some("0.1.1")}
UpdateFlags == {None, Some(FALSE), Some(TRUE)}

\* commands the device endpoints queue
DisplayCommands == {"reboot", "update"}

\* What the last display step was and whether _display_connected held
\* when it began.
LiveStep(op, was_connected) == [op |-> op, was_connected |-> was_connected]

\* Variant of is_display_connected that never finds the display connected.
IsDisplayConnectedNever(now, last_seen) == FALSE

\* Variant of is_display_connected that still counts a heartbeat exactly
\* DISPLAY_TIMEOUT_SEC old as fresh.
IsDisplayConnectedInclusive(now, last_seen) ==
    IF last_seen = 0 THEN FALSE ELSE (now - last_seen) <= DISPLAY_TIMEOUT_SEC

\* is_display_connected()
IsDisplayConnected(now, last_seen) ==
    IF last_seen = 0 THEN FALSE ELSE (now - last_seen) < DISPLAY_TIMEOUT_SEC

\* Variant of the connection-change broadcast made on every heartbeat.
ConnectedTasksAlways(was_connected) == <<[type |-> "device_connected"]>>

\* update_display_heartbeat(): the broadcast of a connection change
ConnectedTasks(was_connected) ==
    IF ~was_connected THEN <<[type |-> "device_connected"]>> ELSE <<>>

\* Variant of the update_available broadcast made whenever the heartbeat
\* carries the flag.
UpdateTasksOnEveryFlag(old_status, update_available) ==
    IF update_available # None
    THEN <<[type |-> "device_update_available",
            update_available |-> update_available[1]]>>
    ELSE <<>>

\* display_heartbeat(): the broadcast of a changed update_available
UpdateTasks(old_status, update_available) ==
    IF update_available # None /\ old_status # update_available[1]
    THEN <<[type |-> "device_update_available",
            update_available |-> update_available[1]]>>
    ELSE <<>>

\* One line of display_log: a call, its arguments and what it returned.
DisplayLine(op, args, result) == [op |-> op, args |-> args, result |-> result]

\* Variant of queue_display_command that keeps a command already pending.
QueueCommandIfEmpty(pending, command) ==
    IF pending = None THEN Some(command) ELSE pending

\* queue_display_command(): _display_pending_command = command
QueueCommand(pending, command) == Some(command)

\* Variant of pop_display_command that leaves the command pending.
PopClearedKeep(pending) == pending

\* pop_display_command(): _display_pending_command = None
PopCleared(pending) == None

\* Variant of the response that never carries a command.
HeartbeatResponseWithoutCommand(cmd) == [ok |-> TRUE, command |-> None]

\* display_heartbeat(): the response body, after cmd = pop_display_command()
HeartbeatResponse(cmd) ==
    IF cmd # None THEN [ok |-> TRUE, command |-> cmd]
                  ELSE [ok |-> TRUE, command |-> None]

\* One second passes.
Tick ==
    /\ clock < MaxClock
    /\ clock' = clock + 1
    /\ device_tasks' = <<>>
    /\ response' = None
    /\ live_last' = LiveStep("tick", _display_connected)
    /\ UNCHANGED <<_display_last_seen, _display_connected,
                   _display_pending_command, _display_firmware_version,
                   _device_update_available, check_wake, display_log,
                   shutdown>>
    /\ UNCHANGED <<trackerVars, updateVars, hubVars>>

\* GET /api/display/heartbeat: update_display_heartbeat(), the version and
\* update_available parameters, pop_display_command()
DisplayHeartbeat(version, update_available) ==
    /\ started
    /\ shutdown = "no"
    /\ recording => Len(display_log) < MaxMailbox
    /\ _display_last_seen' = clock
    /\ _display_connected' = TRUE
    /\ _display_firmware_version' =
          IF version # None THEN version ELSE _display_firmware_version
    /\ _device_update_available' =
          IF update_available # None THEN update_available[1]
                                     ELSE _device_update_available
    /\ device_tasks' = ConnectedTasks(_display_connected)
                       \o UpdateTasks(_device_update_available,
                                      update_available)
    /\ _display_pending_command' = PopCleared(_display_pending_command)
    /\ response' = Some(HeartbeatResponse(_display_pending_command))
    /\ live_last' = LiveStep("heartbeat", _display_connected)
    /\ display_log' =
          IF recording
          THEN Append(display_log,
                      DisplayLine("heartbeat", <<version, update_available>>,
                                  HeartbeatResponse(_display_pending_command)
                                      .command))
          ELSE display_log
    /\ UNCHANGED <<clock, check_wake, shutdown>>
    /\ UNCHANGED <<trackerVars, updateVars, hubVars>>

\* queue_display_command(command)
QueueDisplayCommand(command) ==
    /\ started
    /\ shutdown = "no"
    /\ recording => Len(display_log) < MaxMailbox
    /\ _display_pending_command' =
          QueueCommand(_display_pending_command, command)
    /\ display_log' =
          IF recording
          THEN Append(display_log, DisplayLine("queue", <<command>>, None))
          ELSE display_log
    /\ device_tasks' = <<>>
    /\ response' = None
    /\ live_last' = LiveStep("queue", _display_connected)
    /\ UNCHANGED <<clock, _display_last_seen, _display_connected,
                   _display_firmware_version, _device_update_available,
                   check_wake, shutdown>>
    /\ UNCHANGED <<trackerVars, updateVars, hubVars>>

\* GET /api/display/status
DisplayStatus ==
    /\ started
    /\ shutdown = "no"
    /\ response' =
          Some([connected |-> IsDisplayConnected(clock, _display_last_seen),
                last_seen |-> IF _display_last_seen > 0
                              THEN Some(_display_last_seen) ELSE None,
                firmware_version |-> _display_firmware_version,
                update_available |-> _device_update_available])
    /\ device_tasks' = <<>>
    /\ live_last' = LiveStep("status", _display_connected)
    /\ UNCHANGED <<clock, _display_last_seen, _display_connected,
                   _display_pending_command, _display_firmware_version,
                   _device_update_available, check_wake, display_log,
                   shutdown>>
    /\ UNCHANGED <<trackerVars, updateVars, hubVars>>

\* A broadcast_message call: the registry when its for loop began, the
\* observers the loop has yielded so far, the local set disconnected, and
\* whether the registry was changed while one of its sends was suspended.
Broadcast(pc, owner, start, order, disconnected, interfered) ==
    [pc |-> pc, owner |-> owner, start |-> start, order |-> order,
     disconnected |-> disconnected, interfered |-> interfered]

HubStep(op, observer, message, was_registered) ==
    [op |-> op, observer |-> observer, message |-> message,
     was_registered |-> was_registered]

\* Variant of the check's test that does not look at _display_connected.
TimedOutWhateverState(connected, now, last_seen) ==
    ~IsDisplayConnected(now, last_seen)

\* check_display_timeout():
\* if _display_connected and not is_display_connected()
TimedOut(connected, now, last_seen) ==
    connected /\ ~IsDisplayConnected(now, last_seen)

\* check_display_timeout(): one turn of the loop, run when the sleep is over.
\* On a timeout the loop awaits broadcast_message itself: with an empty
\* registry the call returns at once and the loop sleeps again; otherwise the
\* loop is suspended in the call (owner "checker") and sleeps again only
\* when the call has returned.
CheckDisplayTimeout ==
    LET timed_out == TimedOut(_display_connected, clock, _display_last_seen)
        awaits == timed_out /\ websocket_clients # {}
    IN /\ check_wake # None
       /\ clock >= check_wake[1]
       /\ _display_connected' = IF timed_out THEN FALSE
                                             ELSE _display_connected
       /\ device_tasks' = IF timed_out
                          THEN <<[type |-> "device_disconnected"]>>
                          ELSE <<>>
       /\ IF awaits
          THEN /\ \E first \in websocket_clients :
                     bcast' = Broadcast("sending", "checker",
                                        websocket_clients, <<first>>, {},
                                        FALSE)
               /\ hub_last' = HubStep("broadcast", None, None, FALSE)
               /\ check_wake' = None
          ELSE /\ check_wake' = Some(clock + CHECK_PERIOD)
               /\ UNCHANGED <<bcast, hub_last>>
       /\ response' = None
       /\ live_last' = LiveStep("check", _display_connected)
       /\ UNCHANGED <<clock, _display_last_seen, _display_pending_command,
                      _display_firmware_version, _device_update_available,
                      display_log, shutdown>>
       /\ UNCHANGED <<websocket_clients, endpoint, stalled>>
       /\ UNCHANGED <<trackerVars, updateVars>>

\* lifespan after the yield: "Shutting down...", up to the first await.
\* Nothing here cancels the task made for check_display_timeout.
LifespanShutdown ==
    /\ started
    /\ shutdown = "no"
    /\ shutdown' = "stopping"
    /\ device_tasks' = <<>>
    /\ response' = None
    /\ live_last' = LiveStep("shutdown", _display_connected)
    /\ UNCHANGED <<clock, _display_last_seen, _display_connected,
                   _display_pending_command, _display_firmware_version,
                   _device_update_available, check_wake, display_log>>
    /\ UNCHANGED <<trackerVars, updateVars, hubVars>>

\* lifespan: printer_manager.disconnect_all() has returned and the
\* shutdown part is over.
LifespanExit ==
    /\ shutdown = "stopping"
    /\ shutdown' = "stopped"
    /\ device_tasks' = <<>>
    /\ response' = None
    /\ live_last' = LiveStep("exit", _display_connected)
    /\ UNCHANGED <<clock, _display_last_seen, _display_connected,
                   _display_pending_command, _display_firmware_version,
                   _device_update_available, check_wake, display_log>>
    /\ UNCHANGED <<trackerVars, updateVars, hubVars>>

\* lifespan startup: set_usage_callback, set_event_loop, set_state_callback
Lifespan ==
    /\ ~started
    /\ started' = TRUE
    /\ _on_usage_logged' = Some("on_usage_logged")
    /\ _loop' = Some("loop")
    /\ end_log' = <<>>
    /\ usage_calls' = <<>>
    /\ last' = Handler("lifespan", None, "none", FALSE)
    /\ ran_on' = "loop"
    /\ broadcast_tasks' = <<>>
    /\ compared' = <<>>
    /\ check_wake' = Some(clock + CHECK_PERIOD)
    /\ device_tasks' = <<>>
    /\ response' = None
    /\ live_last' = LiveStep("lifespan", _display_connected)
    /\ UNCHANGED <<estimate_call, estimate_result, printers, _sessions, _previous_states, recording, journal,
                   callback_thread, clock, _display_last_seen,
                   _display_connected, _display_pending_command,
                   _display_firmware_version, _device_update_available,
                   display_log, shutdown>>
    /\ UNCHANGED <<hubVars, updateVars>>

\* on_printer_state_update(serial, state)
OnPrinterStateUpdate(serial, state) ==
    LET prev_state == _previous_states[serial]
        outcome == Outcome(state, prev_state)
        ended == IF outcome.kind = "end"
                 THEN EndRecords(_sessions, serial, state, outcome.success)
                 ELSE <<>>
        calls == IF outcome.kind = "end"
                 THEN NotifyCalls(_sessions, serial, state,
                                  _on_usage_logged, _loop)
                 ELSE <<>>
    IN /\ started
       /\ serial \in printers
       /\ recording => Len(journal) < MaxJournal
       /\ _sessions' = IF outcome.kind = "start"
                       THEN OnPrintStart(_sessions, serial, state)
                       ELSE IF outcome.kind = "end"
                       THEN PopSession(_sessions, serial)
                       ELSE _sessions
       /\ _previous_states' = StorePrevious(_previous_states, serial, state)
       /\ compared' = IF recording THEN <<prev_state>> ELSE <<>>
       /\ end_log' = ended
       /\ usage_calls' = calls
       /\ last' = Handler("state_update", Some(serial), outcome.kind,
                          _sessions[serial] # None)
       /\ journal' = IF recording
                     THEN Append(journal, JournalLine("state_update", serial,
                                                      Some(state), ended, calls))
                     ELSE journal
       /\ ran_on' = callback_thread
       /\ broadcast_tasks' =
             CreateBroadcastTask(callback_thread, started,
                                 PrinterStateMessage(serial, state))
       /\ UNCHANGED <<estimate_call, estimate_result, printers, started, _on_usage_logged, _loop, recording,
                      callback_thread>>
       /\ UNCHANGED <<liveVars, hubVars, updateVars>>

\* Variant of the pop that forgets the previous state of every printer.
PopPreviousOfAll(previous, serial) == [p \in DOMAIN previous |-> None]

\* _previous_states.pop(serial, None)
PopPrevious(previous, serial) == [previous EXCEPT ![serial] = None]

\* on_printer_disconnect(serial): _previous_states.pop(serial, None)
OnPrinterDisconnect(serial) ==
    /\ started
    /\ serial \in printers
    /\ recording => Len(journal) < MaxJournal
    /\ _previous_states' = PopPrevious(_previous_states, serial)
    /\ end_log' = <<>>
    /\ usage_calls' = <<>>
    /\ last' = Handler("disconnect", Some(serial), "none",
                       _sessions[serial] # None)
    /\ journal' = IF recording
                  THEN Append(journal, JournalLine("disconnect", serial,
                                                   None, <<>>, <<>>))
                  ELSE journal
    /\ ran_on' = callback_thread
    /\ broadcast_tasks' =
          CreateBroadcastTask(callback_thread, started,
                              [type |-> "printer_disconnected",
                               serial |-> serial])
    /\ compared' = <<>>
    /\ UNCHANGED <<estimate_call, estimate_result, printers, started, _sessions, _on_usage_logged, _loop,
                   recording, callback_thread>>
    /\ UNCHANGED <<liveVars, hubVars, updateVars>>

\* ---------------------------------------------------------------------
\* api/device.py: the command endpoints
\* ---------------------------------------------------------------------

\* POST /device/reboot, /update, /scale/tare, /scale/calibrate, /scale/reset
DeviceEndpoints == {"reboot", "update", "scale/tare", "scale/calibrate",
                    "scale/reset"}

\* known_weight of /scale/calibrate, in whole grams
KnownWeights == {100, 500}

\* f"{known_weight:.1f}" of a whole number of grams
OneDecimal(known_weight) == ToString(known_weight) \o ".0"

\* The command an endpoint queues.
EndpointCommand(ep, known_weight) ==
    CASE ep = "reboot" -> "reboot"
      [] ep = "update" -> "update"
      [] ep = "scale/tare" -> "scale_tare"
      [] ep = "scale/calibrate" ->
            "scale_calibrate:" \o OneDecimal(known_weight)
      [] ep = "scale/reset" -> "scale_reset"

\* Variant of the endpoints that queues the command whether or not the
\* display is connected.
PendingAfterCommandAlways(pending, connected, command) ==
    QueueCommand(pending, command)

\* if not is_display_connected(): raise HTTPException(...)
\* queue_display_command(command)
PendingAfterCommand(pending, connected, command) ==
    IF connected THEN QueueCommand(pending, command) ELSE pending

\* The response of an endpoint: its body, or the HTTPException.
CommandResponse(connected) ==
    IF connected THEN [status_code |-> 200, success |-> TRUE]
    ELSE [status_code |-> 400, detail |-> "No device connected"]

\* One call of a command endpoint.
DeviceCommand(ep, known_weight) ==
    LET connected == IsDisplayConnected(clock, _display_last_seen)
    IN /\ started
       /\ shutdown = "no"
       /\ _display_pending_command' =
             PendingAfterCommand(_display_pending_command, connected,
                                 EndpointCommand(ep, known_weight))
       /\ response' = Some(CommandResponse(connected))
       /\ device_tasks' = <<>>
       /\ live_last' = LiveStep(ep, _display_connected)
       /\ UNCHANGED <<clock, _display_last_seen, _display_connected,
                      _display_firmware_version, _device_update_available,
                      check_wake, display_log, shutdown>>
       /\ UNCHANGED <<trackerVars, updateVars, hubVars>>

\* ---------------------------------------------------------------------
\* main.py: the broadcast hub and the WebSocket endpoint
\* ---------------------------------------------------------------------

\* WebSocket connections of UI clients
Observers == {"w1", "w2", "w3"}

\* Who awaits a broadcast_message call: a task made with create_task, or
\* the endpoint of an observer that sent tag_removed.
Owners == {"task"} \cup Observers

\* conn.connected of printer_manager._connections
ConnectionFlags == [serial \in printers |-> TRUE]

\* the initial_state dict of websocket_endpoint
InitialState ==
    [type |-> "initial_state",
     device |-> [connected |-> IsDisplayConnected(clock, _display_last_seen),
                 update_available |-> _device_update_available,
                 last_weight |-> None,
                 weight_stable |-> FALSE,
                 current_tag_id |-> None],
     printers |-> ConnectionFlags]

\* Variant of set.discard that leaves the set as it is.
DiscardKeep(clients, w) == clients

\* websocket_clients.discard(websocket)
Discard(clients, w) == clients \ {w}

\* Variant of difference_update that removes nothing.
DifferenceUpdateKeep(clients, disconnected) == clients

\* websocket_clients.difference_update(disconnected)
DifferenceUpdate(clients, disconnected) == clients \ disconnected

Yielded(order) == {order[i] : i \in DOMAIN order}

\* The observer a suspended broadcast is sending to.
Current(b) == b.order[Len(b.order)]

\* Observers whose send_text returned normally in broadcast b.
Delivered(b) ==
    (Yielded(b.order) \ b.disconnected)
    \ (IF b.pc = "sending" THEN {Current(b)} ELSE {})

\* next() of the iterator of `for ws in websocket_clients`, made when the
\* set held `start`.  CPython raises RuntimeError when the set's size is not
\* the size it had then.  With the size unchanged, entries that are still
\* there and not yet yielded are yielded in hash order; an entry added
\* meanwhile is yielded or passed over depending on where it hashed to.
SetIterNext(clients, start, yielded) ==
    IF Cardinality(clients) # Cardinality(start)
    THEN {"RuntimeError"}
    ELSE LET rest == clients \ yielded
         IN rest \cup (IF rest \cap start = {} THEN {"StopIteration"} ELSE {})

\* The registry changing while broadcast b is suspended in a send.
Interfere(b) ==
    IF b.pc = "sending" THEN [b EXCEPT !.interfered = TRUE] ELSE b

\* websocket_endpoint: accept(), websocket_clients.add(websocket), build
\* initial_state, up to the suspension in send_text
Accept(w) ==
    /\ started
    /\ endpoint[w] = "idle"
    /\ websocket_clients' = websocket_clients \cup {w}
    /\ endpoint' = [endpoint EXCEPT ![w] = "initial"]
    /\ bcast' = Interfere(bcast)
    /\ hub_last' = HubStep("accept", Some(w), Some(InitialState), TRUE)
    /\ UNCHANGED <<stalled, trackerVars, updateVars, liveVars>>

\* websocket_endpoint: the initial send_text returns or raises (the except
\* clause logs a warning), then the endpoint waits in receive_text
InitialSendReturns(w, ok) ==
    /\ endpoint[w] = "initial"
    /\ w \notin stalled
    /\ endpoint' = [endpoint EXCEPT ![w] = "receiving"]
    /\ hub_last' = HubStep(IF ok THEN "initial_sent" ELSE "initial_failed",
                           Some(w), None, w \in websocket_clients)
    /\ UNCHANGED <<websocket_clients, stalled, bcast, trackerVars, updateVars, liveVars>>

\* websocket_endpoint: receive_text raises WebSocketDisconnect or another
\* Exception; finally: websocket_clients.discard(websocket)
Close(w, cause) ==
    /\ endpoint[w] = "receiving"
    /\ websocket_clients' = Discard(websocket_clients, w)
    /\ endpoint' = [endpoint EXCEPT ![w] = "closed"]
    /\ bcast' = IF w \in websocket_clients THEN Interfere(bcast) ELSE bcast
    /\ hub_last' = HubStep(cause, Some(w), None, w \in websocket_clients)
    /\ UNCHANGED <<stalled, trackerVars, updateVars, liveVars>>

\* An observer's socket stops draining: sends to it never complete.
Stall(w) ==
    /\ endpoint[w] \in {"initial", "receiving", "broadcasting"}
    /\ stalled = {}
    /\ stalled' = {w}
    /\ hub_last' = HubStep("stall", None, None, FALSE)
    /\ UNCHANGED <<websocket_clients, endpoint, bcast, trackerVars, updateVars, liveVars>>

\* broadcast_message: from the call to its first suspension in send_text,
\* or to its return when the registry is empty.  owner is "task" for a
\* call wrapped in create_task, or the observer whose endpoint received
\* tag_removed and awaits the call.
StartBroadcast(owner) ==
    /\ started
    /\ bcast.pc # "sending"
    /\ owner \in Observers => endpoint[owner] = "receiving"
    /\ IF websocket_clients = {}
       THEN /\ bcast' = Broadcast("done", owner, {}, <<>>, {}, FALSE)
            /\ UNCHANGED endpoint
       ELSE /\ \E first \in websocket_clients :
                  bcast' = Broadcast("sending", owner, websocket_clients,
                                     <<first>>, {}, FALSE)
            /\ endpoint' = IF owner \in Observers
                           THEN [endpoint EXCEPT ![owner] = "broadcasting"]
                           ELSE endpoint
    /\ hub_last' = HubStep("broadcast", None, None, FALSE)
    /\ UNCHANGED <<websocket_clients, stalled, trackerVars, updateVars, liveVars>>

\* broadcast_message: the suspended send_text returns (ok) or raises, and
\* the for loop goes on: to the next send, to difference_update and the
\* return, or out of the call with the iterator's RuntimeError.  An
\* endpoint awaiting the call catches that error and ends (finally: discard).
\* check_display_timeout awaiting the call sleeps again when it returns;
\* the error ends its task, which nothing restarts.
SendReturns(ok) ==
    LET w == Current(bcast)
        disconnected == IF ok THEN bcast.disconnected
                              ELSE bcast.disconnected \cup {w}
        owner == bcast.owner
    IN /\ bcast.pc = "sending"
       /\ w \notin stalled
       /\ \E nxt \in SetIterNext(websocket_clients, bcast.start,
                                 Yielded(bcast.order)) :
             IF nxt = "RuntimeError"
             THEN /\ bcast' = [bcast EXCEPT !.pc = "raised",
                                            !.disconnected = disconnected]
                  /\ websocket_clients' =
                        IF owner \in Observers
                        THEN Discard(websocket_clients, owner)
                        ELSE websocket_clients
                  /\ endpoint' =
                        IF owner \in Observers
                        THEN [endpoint EXCEPT ![owner] = "closed"]
                        ELSE endpoint
                  /\ hub_last' = HubStep("raised", None, None, FALSE)
             ELSE IF nxt = "StopIteration"
             THEN /\ bcast' = [bcast EXCEPT !.pc = "done",
                                            !.disconnected = disconnected]
                  /\ websocket_clients' =
                        DifferenceUpdate(websocket_clients, disconnected)
                  /\ endpoint' =
                        IF owner \in Observers
                        THEN [endpoint EXCEPT ![owner] = "receiving"]
                        ELSE endpoint
                  /\ hub_last' = HubStep("returned", None, None, FALSE)
             ELSE /\ bcast' = [bcast EXCEPT !.order = Append(@, nxt),
                                            !.disconnected = disconnected]
                  /\ hub_last' = HubStep("sent", None, None, FALSE)
                  /\ UNCHANGED <<websocket_clients, endpoint>>
       /\ check_wake' = IF owner = "checker" /\ bcast'.pc = "done"
                        THEN Some(clock + CHECK_PERIOD)
                        ELSE check_wake
       /\ UNCHANGED <<clock, _display_last_seen, _display_connected,
                      _display_pending_command, _display_firmware_version,
                      _device_update_available, device_tasks, response,
                      live_last, display_log, shutdown>>
       /\ UNCHANGED <<stalled, trackerVars, updateVars>>

\* ---------------------------------------------------------------------
\* Specifications
\* ---------------------------------------------------------------------

\* The module globals of the display monitor; the clock starts at second 1.
InitLive ==
    /\ clock = 1
    /\ _display_last_seen = 0
    /\ _display_connected = FALSE
    /\ _display_pending_command = None
    /\ _display_firmware_version = None
    /\ _device_update_available = FALSE
    /\ check_wake = None
    /\ device_tasks = <<>>
    /\ response = None
    /\ live_last = LiveStep("init", FALSE)
    /\ display_log = <<>>
    /\ shutdown = "no"

\* No observer has connected and no broadcast has run.
InitHub ==
    /\ websocket_clients = {}
    /\ endpoint = [w \in Observers |-> "idle"]
    /\ stalled = {}
    /\ bcast = Broadcast("idle", "task", {}, <<>>, {}, FALSE)
    /\ hub_last = HubStep("init", None, None, FALSE)

\* ---------------------------------------------------------------------
\* api/updates.py: applying an application update
\* ---------------------------------------------------------------------

\* Most update tasks waiting to run at once.
MaxUpdateTasks == 2

\* Versions a request may name; those of StartsWithV begin with "v".
UpdateVersions == {"1.2.0", "v1.2.0"}

StartsWithV == {"v1.2.0"}

\* What symbolic-ref prints for origin/HEAD.
DefaultBranches == {"origin/main", "origin/master"}

\* default_branch.replace("origin/", "")
WithoutOrigin(default_branch) ==
    CASE default_branch = "origin/main" -> "main"
      [] default_branch = "origin/master" -> "master"

\* What the git commands of one task run do: whether each one succeeds,
\* and the default branch symbolic-ref prints when it does.
GitRuns ==
    [fetch : BOOLEAN, head : {None} \cup {Some(b) : b \in DefaultBranches},
     verify : BOOLEAN, verify_origin : BOOLEAN, update : BOOLEAN,
     reset : BOOLEAN]

\* The output of a git command that failed.
GitOutput == "fatal"

UpdateStatus(status, message, error) ==
    [status |-> status, message |-> message, progress |-> None,
     error |-> error]

\* The ref the task looks for before it asks git whether it exists.
TargetRef(version, git) ==
    IF version # None
    THEN IF version[1] \in StartsWithV THEN version[1]
         ELSE "v" \o version[1]
    ELSE IF git.head # None THEN WithoutOrigin(git.head[1]) ELSE "main"

\* The values _apply_update_task assigns to _update_status, in order.
\* The task has no await: it runs from its first line to its return
\* without another coroutine running.
ApplyUpdateTaskWrites(version, git) ==
    LET downloading ==
            UpdateStatus("downloading", Some("Fetching updates..."), None)
        applying ==
            UpdateStatus("applying", Some("Applying updates..."), None)
        failed(error) == UpdateStatus("error", None, Some(error))
    IN  IF ~git.fetch
        THEN <<downloading, failed("Git fetch failed: " \o GitOutput)>>
        ELSE IF ~git.verify /\ ~git.verify_origin
        THEN <<downloading, applying,
               failed("Target '" \o TargetRef(version, git)
                      \o "' not found")>>
        ELSE IF ~git.update /\ ~git.reset
        THEN <<downloading, applying,
               failed("Git update failed: " \o GitOutput)>>
        ELSE <<downloading, applying,
               UpdateStatus("restarting",
                   Some("Update applied. Please restart the application."),
                   None)>>

\* A step of the update routes: which one, how many update tasks were
\* waiting when it began, and the statuses it passed through.
UpdateStep(step, waiting, writes) ==
    [step |-> step, waiting |-> waiting, writes |-> writes]

InitUpdate ==
    /\ _update_status = UpdateStatus("idle", None, None)
    /\ background_tasks = <<>>
    /\ update_response = None
    /\ update_last = UpdateStep("init", 0, <<>>)

\* POST /api/updates/apply. Nothing is awaited while the lock is held, so
\* the handler runs as one step; the task it adds runs after the response
\* has been sent.
ApplyUpdate(version) ==
    /\ Len(background_tasks) < MaxUpdateTasks
    /\ IF _update_status.status \in {"downloading", "applying"}
       THEN /\ update_response' =
                  Some([status_code |-> 409,
                        detail |-> "Update already in progress"])
            /\ UNCHANGED <<_update_status, background_tasks>>
       ELSE /\ _update_status' =
                  UpdateStatus("checking", Some("Starting update..."), None)
            /\ background_tasks' = Append(background_tasks, version)
            /\ update_response' =
                  Some([status_code |-> 200, body |-> _update_status'])
    /\ update_last' = UpdateStep("apply", Len(background_tasks), <<>>)
    /\ UNCHANGED <<trackerVars, liveVars, hubVars>>

\* A waiting _apply_update_task runs; tasks of different responses run in
\* the order their responses finish.
ApplyUpdateTask(i, git) ==
    /\ i \in 1..Len(background_tasks)
    /\ LET writes == ApplyUpdateTaskWrites(background_tasks[i], git)
       IN  /\ _update_status' = writes[Len(writes)]
           /\ update_last' =
                 UpdateStep("task", Len(background_tasks),
                            [k \in 1..Len(writes) |-> writes[k].status])
    /\ background_tasks' =
          [k \in 1..(Len(background_tasks) - 1) |->
              IF k < i THEN background_tasks[k] ELSE background_tasks[k + 1]]
    /\ UNCHANGED update_response
    /\ UNCHANGED <<trackerVars, liveVars, hubVars>>

\* GET /api/updates/status
GetUpdateStatus ==
    /\ update_response' = Some([status_code |-> 200, body |-> _update_status])
    /\ update_last' = UpdateStep("status", Len(background_tasks), <<>>)
    /\ UNCHANGED <<_update_status, background_tasks>>
    /\ UNCHANGED <<trackerVars, liveVars, hubVars>>

\* POST /api/updates/reset-status
ResetUpdateStatus ==
    /\ _update_status' = UpdateStatus("idle", None, None)
    /\ update_response' = Some([status_code |-> 200, body |-> _update_status'])
    /\ update_last' = UpdateStep("reset", Len(background_tasks), <<>>)
    /\ UNCHANGED background_tasks
    /\ UNCHANGED <<trackerVars, liveVars, hubVars>>

NextUpdate ==
    \/ \E version \in {None} \cup {Some(v) : v \in UpdateVersions} :
          ApplyUpdate(version)
    \/ \E i \in 1..MaxUpdateTasks, git \in GitRuns : ApplyUpdateTask(i, git)
    \/ GetUpdateStatus
    \/ ResetUpdateStatus

InitTracker(ps, rec, threads) ==
    /\ printers = ps
    /\ started = FALSE
    /\ _sessions = [p \in Printers |-> None]
    /\ _on_usage_logged = None
    /\ _loop = None
    /\ _previous_states = [p \in Printers |-> None]
    /\ end_log = <<>>
    /\ usage_calls = <<>>
    /\ last = Handler("init", None, "none", FALSE)
    /\ recording = rec
    /\ journal = <<>>
    /\ callback_thread \in threads
    /\ ran_on = "loop"
    /\ broadcast_tasks = <<>>
    /\ compared = <<>>
    /\ estimate_call = None
    /\ estimate_result = None
    /\ InitLive
    /\ InitHub
    /\ InitUpdate

\* The tracker with callbacks arriving on the MQTT thread.
InitWith(ps, rec) == InitTracker(ps, rec, {"mqtt"})

\* One printer, the full set of snapshots.
Init == InitWith({"P1"}, FALSE)

\* Two printers, the narrow set of snapshots.
InitFleet == InitWith(Printers, FALSE)

\* One printer, the narrow set of snapshots, every snapshot journalled.
InitTrace == InitWith({"P1"}, TRUE)

\* Two printers, one snapshot per phase, every snapshot journalled.
InitFleetTrace == InitWith(Printers, TRUE)

\* A UsageTracker fed by a host that called set_usage_callback and
\* set_event_loop or left either out: one printer, the full set of
\* snapshots.
InitUnit ==
    /\ printers = {"P1"}
    /\ started = TRUE
    /\ _sessions = [p \in Printers |-> None]
    /\ _on_usage_logged \in {None, Some("on_usage_logged")}
    /\ _loop \in {None, Some("loop")}
    /\ _previous_states = [p \in Printers |-> None]
    /\ end_log = <<>>
    /\ usage_calls = <<>>
    /\ last = Handler("init", None, "none", FALSE)
    /\ recording = FALSE
    /\ journal = <<>>
    /\ callback_thread = "mqtt"
    /\ ran_on = "loop"
    /\ broadcast_tasks = <<>>
    /\ compared = <<>>
    /\ estimate_call = None
    /\ estimate_result = None
    /\ InitLive
    /\ InitHub
    /\ InitUpdate

\* One printer, the narrow set of snapshots, every snapshot journalled,
\* callbacks arriving on the loop's thread or on the MQTT thread.
InitBridge == InitTracker({"P1"}, TRUE, Threads)

Next ==
    \/ Lifespan
    \/ \E serial \in Printers, state \in Telemetry :
          OnPrinterStateUpdate(serial, state)
    \/ \E serial \in Printers : OnPrinterDisconnect(serial)

Spec == Init /\ [][Next]_vars

SpecFleet == InitFleet /\ [][Next]_vars

SpecTrace == InitTrace /\ [][Next]_vars

SpecBridge == InitBridge /\ [][Next]_vars

SpecFleetTrace == InitFleetTrace /\ [][Next]_vars

\* The telemetry callbacks of a host that is already running.
NextUnit ==
    \/ \E serial \in Printers, state \in Telemetry :
          OnPrinterStateUpdate(serial, state)
    \/ \E serial \in Printers : OnPrinterDisconnect(serial)

SpecUnit == InitUnit /\ [][NextUnit]_vars

\* The display monitor: startup, the clock, heartbeats, queued commands and
\* the periodic check.
NextLive ==
    \/ Lifespan
    \/ Tick
    \/ \E version \in Versions, update_available \in UpdateFlags :
          DisplayHeartbeat(version, update_available)
    \/ \E command \in DisplayCommands : QueueDisplayCommand(command)
    \/ CheckDisplayTimeout

SpecLive == Init /\ [][NextLive]_vars

\* The display monitor up to and after the application's shutdown.
NextShutdown ==
    \/ NextLive
    \/ LifespanShutdown
    \/ LifespanExit

SpecShutdown == Init /\ [][NextShutdown]_vars

\* The command mailbox: startup, queued commands and heartbeats, every call
\* journalled.
NextMailbox ==
    \/ Lifespan
    \/ \E command \in DisplayCommands : QueueDisplayCommand(command)
    \/ \E version \in Versions, update_available \in UpdateFlags :
          DisplayHeartbeat(version, update_available)

SpecMailbox == InitTrace /\ [][NextMailbox]_vars

\* A call of estimate_weight_from_percent with a percentage of 0..MaxPercent,
\* a label weight and a core weight, each weight given or left out.
InitEstimate ==
    /\ printers = {"P1"}
    /\ started = FALSE
    /\ _sessions = [p \in Printers |-> None]
    /\ _on_usage_logged = None
    /\ _loop = None
    /\ _previous_states = [p \in Printers |-> None]
    /\ end_log = <<>>
    /\ usage_calls = <<>>
    /\ last = Handler("init", None, "none", FALSE)
    /\ recording = FALSE
    /\ journal = <<>>
    /\ callback_thread = "mqtt"
    /\ ran_on = "loop"
    /\ broadcast_tasks = <<>>
    /\ compared = <<>>
    /\ \E p \in 0..MaxPercent, w \in LabelWeights, c \in CoreWeights :
          estimate_call = Some(EstimateCall(p, w, c))
    /\ estimate_result = None
    /\ InitLive
    /\ InitHub
    /\ InitUpdate

NextEstimate == CallEstimate

SpecEstimate == InitEstimate /\ [][NextEstimate]_vars

\* One second passes, unless a turn of check_display_timeout is due: the
\* loop runs a task whose sleep is over before the clock moves on.
TickOnTime ==
    /\ clock < MaxWatch
    /\ check_wake # None => clock < check_wake[1]
    /\ clock' = clock + 1
    /\ device_tasks' = <<>>
    /\ response' = None
    /\ live_last' = LiveStep("tick", _display_connected)
    /\ UNCHANGED <<_display_last_seen, _display_connected,
                   _display_pending_command, _display_firmware_version,
                   _device_update_available, check_wake, display_log,
                   shutdown>>
    /\ UNCHANGED <<trackerVars, updateVars, hubVars>>

\* The display monitor with one observer in the registry: startup, the
\* clock, plain heartbeats, the periodic check and its broadcast.
NextWatch ==
    \/ Lifespan
    \/ TickOnTime
    \/ DisplayHeartbeat(None, None)
    \/ CheckDisplayTimeout
    \/ Accept("w1")
    \/ \E ok \in BOOLEAN : InitialSendReturns("w1", ok)
    \/ \E cause \in {"disconnect", "error"} : Close("w1", cause)
    \/ Stall("w1")
    \/ \E ok \in BOOLEAN : SendReturns(ok)

SpecWatch == Init /\ [][NextWatch]_vars

\* The display monitor and the command endpoints of api/device.py.
NextDevice ==
    \/ Lifespan
    \/ Tick
    \/ DisplayHeartbeat(None, None)
    \/ CheckDisplayTimeout
    \/ \E ep \in DeviceEndpoints, known_weight \in KnownWeights :
          DeviceCommand(ep, known_weight)

SpecDevice == Init /\ [][NextDevice]_vars

\* The display monitor with one observer and the status endpoint.
NextStatus ==
    \/ NextWatch
    \/ DisplayStatus

SpecStatus == Init /\ [][NextStatus]_vars

\* The broadcast hub: startup, observers connecting and going away, and
\* broadcasts.
NextHub ==
    \/ Lifespan
    \/ \E w \in Observers : Accept(w)
    \/ \E w \in Observers, ok \in BOOLEAN : InitialSendReturns(w, ok)
    \/ \E w \in Observers, cause \in {"disconnect", "error"} : Close(w, cause)
    \/ \E w \in Observers : Stall(w)
    \/ \E owner \in Owners : StartBroadcast(owner)
    \/ \E ok \in BOOLEAN : SendReturns(ok)

SpecHub == Init /\ [][NextHub]_vars

\* The update routes alone.
SpecUpdate == Init /\ [][NextUpdate]_vars

\* ---------------------------------------------------------------------
\* Properties
\* ---------------------------------------------------------------------

\* The step just taken was on_printer_state_update(d, _) ...
Updated(d) == last'.op = "state_update" /\ last'.serial = Some(d)

\* ... and this is the state it was called with,
NewState(d) == _previous_states'[d][1]

\* ... and this the gcode_state of the previous state, None if there was none.
PrevGcode(d) ==
    IF _previous_states[d] = None THEN None
    ELSE Some(_previous_states[d][1].gcode_state)

\* The AMS slots of a state that carry a remain value, as <<ams, tray, remain>>.
SlotReadings(state) ==
    UNION {{<<state.ams_units[i].id,
              state.ams_units[i].trays[j].tray_id,
              state.ams_units[i].trays[j].remain[1]>> :
               j \in {k \in DOMAIN state.ams_units[i].trays :
                          state.ams_units[i].trays[k].remain # None}} :
           i \in DOMAIN state.ams_units}

\* The virtual tray's remain value, if the state has one.
VirtualReading(state) ==
    IF state.vt_tray = None THEN None ELSE state.vt_tray[1].remain

\* d is exactly the slot readings of state plus its virtual reading at (255, 0).
IsBaselineOf(d, state) ==
    /\ DOMAIN d = {<<r[1], r[2]>> : r \in SlotReadings(state)}
                    \cup (IF VirtualReading(state) # None
                          THEN {<<255, 0>>} ELSE {})
    /\ \A r \in SlotReadings(state) : d[<<r[1], r[2]>>] = r[3]
    /\ VirtualReading(state) # None => d[<<255, 0>>] = VirtualReading(state)[1]

\* usage holds exactly the keys tracked at start that have an end reading
\* below the start value, each with the difference.
IsDeltaOf(usage, start, current) ==
    /\ DOMAIN usage = {k \in DOMAIN start :
                          k \in DOMAIN current /\ start[k] > current[k]}
    /\ \A k \in DOMAIN usage : usage[k] = start[k] - current[k]

\* C1: a RUNNING state whose previous state is missing or not RUNNING stores
\* a session for that printer whose baseline is exactly the non-null slot
\* readings plus the non-null virtual reading under (255, 0); whatever session
\* the printer had is replaced and the sessions of other printers are kept.
C1_SessionStart ==
    [][\A d \in Printers :
        (/\ Updated(d)
         /\ NewState(d).gcode_state = "RUNNING"
         /\ PrevGcode(d) # Some("RUNNING"))
        => /\ _sessions'[d] # None
           /\ _sessions'[d][1].printer_serial = d
           /\ IsBaselineOf(_sessions'[d][1].tray_remain_start, NewState(d))
           /\ \A e \in Printers \ {d} : _sessions'[e] = _sessions[e]]_vars

\* A start replaced an active session whose baseline differed, the new
\* baseline holds a slot and the virtual reading, another printer has a session.
C1_Witness ==
    /\ last.op = "state_update" /\ last.kind = "start" /\ last.had_session
    /\ \E d \in Printers :
          /\ last.serial = Some(d)
          /\ DOMAIN _sessions[d][1].tray_remain_start = {<<0, 0>>, <<255, 0>>}
          /\ \E e \in Printers \ {d} : _sessions[e] # None

IsUpdate(i, g) ==
    /\ i \in DOMAIN journal
    /\ journal[i].op = "state_update"
    /\ journal[i].state[1].gcode_state = g

\* Journal line i is a RUNNING state that follows no RUNNING state.
IsRunningTransition(i) == IsUpdate(i, "RUNNING") /\ ~IsUpdate(i - 1, "RUNNING")

\* The end records of journal lines i..j, in order.
RECURSIVE EndedIn(_, _)
EndedIn(i, j) == IF i > j THEN <<>> ELSE journal[i].ended \o EndedIn(i + 1, j)

\* C3: when a session ends, tray_usage has a key exactly when the key is in
\* the session's baseline, the end state has a reading for it and the
\* baseline value is above the end value, and maps it to the difference;
\* IDLE, RUNNING with one slot at 80, FINISH with it at 75 gives
\* tray_usage = {slot: 5} and success.
C3_UsageDelta ==
    /\ \A i \in DOMAIN journal : \A n \in DOMAIN journal[i].ended :
          LET rec == journal[i].ended[n]
          IN /\ IsBaselineOf(rec.current_remain, journal[i].state[1])
             /\ IsDeltaOf(rec.tray_usage, rec.session.tray_remain_start,
                          rec.current_remain)
    /\ \A i \in DOMAIN journal :
          (/\ IsUpdate(i, "IDLE") /\ IsUpdate(i + 1, "RUNNING")
           /\ IsUpdate(i + 2, "FINISH")
           /\ SlotReadings(journal[i + 1].state[1]) = {<<0, 0, 80>>}
           /\ SlotReadings(journal[i + 2].state[1]) = {<<0, 0, 75>>})
          => /\ Len(journal[i + 2].ended) = 1
             /\ journal[i + 2].ended[1].tray_usage = (<<0, 0>> :> 5)
             /\ journal[i + 2].ended[1].success

\* IDLE, RUNNING at 80, FINISH at 75 was journalled.
C3_Witness ==
    \E i \in DOMAIN journal :
        /\ IsUpdate(i, "IDLE") /\ IsUpdate(i + 1, "RUNNING")
        /\ IsUpdate(i + 2, "FINISH")
        /\ SlotReadings(journal[i + 1].state[1]) = {<<0, 0, 80>>}
        /\ SlotReadings(journal[i + 2].state[1]) = {<<0, 0, 75>>}
        /\ Len(journal[i + 2].ended) = 1

\* C4: RUNNING (a transition into RUNNING), PAUSE, FINISH gives exactly one
\* end record, a completed one, at FINISH, and its usage is the delta against
\* the readings of the RUNNING state: PAUSE neither ends nor restarts.
C4_PauseThenFinish ==
    \A i \in DOMAIN journal :
        (/\ IsRunningTransition(i) /\ IsUpdate(i + 1, "PAUSE")
         /\ IsUpdate(i + 2, "FINISH"))
        => /\ Len(EndedIn(i, i + 2)) = 1
           /\ Len(journal[i + 2].ended) = 1
           /\ journal[i + 2].ended[1].success
           /\ IsBaselineOf(journal[i + 2].ended[1].session.tray_remain_start,
                           journal[i].state[1])
           /\ IsDeltaOf(journal[i + 2].ended[1].tray_usage,
                        CaptureRemain(journal[i].state[1]),
                        CaptureRemain(journal[i + 2].state[1]))

\* RUNNING, PAUSE, FINISH was journalled with readings that differ between
\* all three states and with usage at the end.
C4_Witness ==
    \E i \in DOMAIN journal :
        /\ IsRunningTransition(i) /\ IsUpdate(i + 1, "PAUSE")
        /\ IsUpdate(i + 2, "FINISH")
        /\ SlotReadings(journal[i].state[1])
              # SlotReadings(journal[i + 1].state[1])
        /\ SlotReadings(journal[i + 1].state[1])
              # SlotReadings(journal[i + 2].state[1])
        /\ Len(journal[i + 2].ended) = 1
        /\ journal[i + 2].ended[1].tray_usage # <<>>

\* C5 as stated: of two consecutive RUNNING states the second overwrites the
\* session, so a session end that follows computes usage against the
\* readings of the second RUNNING state.
C5_SecondRunningOverwrites ==
    \A i \in DOMAIN journal :
        (/\ IsRunningTransition(i) /\ IsUpdate(i + 1, "RUNNING")
         /\ i + 2 \in DOMAIN journal
         /\ journal[i + 2].ended # <<>>)
        => IsBaselineOf(journal[i + 2].ended[1].session.tray_remain_start,
                        journal[i + 1].state[1])

\* C5 amended: of two consecutive RUNNING states, with no disconnect between
\* them, the second produces nothing and leaves the session as the first
\* stored it: a session end that follows computes usage against the readings
\* of the first RUNNING state.
C5_SecondRunningKeepsSession ==
    \A i \in DOMAIN journal :
        (/\ IsRunningTransition(i) /\ IsUpdate(i + 1, "RUNNING"))
        => /\ journal[i + 1].ended = <<>>
           /\ journal[i + 1].calls = <<>>
           /\ (i + 2 \in DOMAIN journal /\ journal[i + 2].op = "state_update"
                /\ journal[i + 2].state[1].gcode_state \in {"FINISH", "IDLE"})
              => /\ Len(journal[i + 2].ended) = 1
                 /\ IsBaselineOf(
                       journal[i + 2].ended[1].session.tray_remain_start,
                       journal[i].state[1])
                 /\ IsDeltaOf(journal[i + 2].ended[1].tray_usage,
                              CaptureRemain(journal[i].state[1]),
                              CaptureRemain(journal[i + 2].state[1]))

\* RUNNING at 80, RUNNING at 75, then a terminal state ended the session.
C5_Witness ==
    \E i \in DOMAIN journal :
        /\ IsRunningTransition(i) /\ IsUpdate(i + 1, "RUNNING")
        /\ SlotReadings(journal[i].state[1]) = {<<0, 0, 80>>}
        /\ SlotReadings(journal[i + 1].state[1]) = {<<0, 0, 75>>}
        /\ i + 2 \in DOMAIN journal
        /\ Len(journal[i + 2].ended) = 1

\* C6 as stated: a session that ends with an empty tray_usage still hands
\* the usage callback an event with the empty usage and the job name.
C6_EmptyUsageEmitted ==
    \A n \in DOMAIN end_log :
        end_log[n].tray_usage = <<>>
        => /\ Len(usage_calls) = 1
           /\ usage_calls[1].tray_usage = <<>>
           /\ usage_calls[1].print_name = end_log[n].session.print_name

\* C6 amended: a session that ends with an empty tray_usage is removed and
\* logged but the usage callback is not called; the callback is called, with
\* the serial, the job name and tray_usage, when tray_usage is not empty.
C6_EmptyUsageNotEmitted ==
    /\ Len(end_log) <= 1
    /\ end_log = <<>> => usage_calls = <<>>
    /\ \A n \in DOMAIN end_log :
          /\ _sessions[end_log[n].serial] = None
          /\ end_log[n].tray_usage = <<>> => usage_calls = <<>>
          /\ end_log[n].tray_usage # <<>>
             => usage_calls = <<[serial |-> end_log[n].serial,
                                 print_name |-> end_log[n].session.print_name,
                                 tray_usage |-> end_log[n].tray_usage]>>

\* A session that tracked trays ended with an empty tray_usage.
C6_Witness ==
    /\ last.kind = "end" /\ last.had_session
    /\ Len(end_log) = 1
    /\ end_log[1].session.tray_remain_start # <<>>
    /\ end_log[1].tray_usage = <<>>
    /\ usage_calls = <<>>

\* C7: an end record is produced only by a step that removes the printer's
\* session, so at most once per session; a terminal transition seen while
\* the printer has no session produces nothing and leaves _sessions as is.
C7_AtMostOncePerSession ==
    [][/\ Len(end_log') <= 1
       /\ Len(usage_calls') <= Len(end_log')
       /\ \A n \in DOMAIN end_log' :
             /\ Updated(end_log'[n].serial)
             /\ _sessions[end_log'[n].serial] = Some(end_log'[n].session)
             /\ _sessions'[end_log'[n].serial] = None
       /\ \A d \in Printers :
             (Updated(d) /\ last'.kind = "end")
             => /\ _sessions'[d] = None
                /\ _sessions[d] = None
                   => (_sessions' = _sessions /\ end_log' = <<>>
                       /\ usage_calls' = <<>>)]_vars

\* A terminal transition was seen while the printer had no session.
C7_Witness ==
    /\ last.op = "state_update" /\ last.kind = "end" /\ ~last.had_session
    /\ end_log = <<>>

\* C8: in every end record each tray_usage value is above zero and each key
\* is a key of the ended session's baseline; a slot whose reading is the
\* same or higher than at start is not in tray_usage.
C8_UsagePositive ==
    \A n \in DOMAIN end_log :
        LET rec == end_log[n]
            start == rec.session.tray_remain_start
        IN /\ \A k \in DOMAIN rec.tray_usage :
                 rec.tray_usage[k] > 0 /\ k \in DOMAIN start
           /\ \A k \in DOMAIN start \cap DOMAIN rec.current_remain :
                 rec.current_remain[k] >= start[k]
                 => k \notin DOMAIN rec.tray_usage
           /\ \A c \in DOMAIN usage_calls :
                 usage_calls[c].tray_usage = rec.tray_usage

\* A session ended with one slot lower, one higher and one unchanged.
C8_Witness ==
    /\ Len(end_log) = 1
    /\ LET rec == end_log[1]
           start == rec.session.tray_remain_start
       IN /\ rec.tray_usage # <<>>
          /\ \E k \in DOMAIN start \cap DOMAIN rec.current_remain :
                rec.current_remain[k] > start[k]
          /\ \E k \in DOMAIN start \cap DOMAIN rec.current_remain :
                rec.current_remain[k] = start[k]

\* C9: a slot tracked at start that has no reading in the end state (unit
\* gone, or remain None) is not in tray_usage and is only reported as lost;
\* the handler still completes and every other tracked slot with a lower
\* reading is in tray_usage with its delta.
C9_LostSlot ==
    \A n \in DOMAIN end_log :
        LET rec == end_log[n]
            start == rec.session.tray_remain_start
            state == _previous_states[rec.serial][1]
            now(k) == IF k = <<255, 0>> THEN VirtualReading(state)
                      ELSE IF \E r \in SlotReadings(state) :
                                 <<r[1], r[2]>> = k
                      THEN Some((CHOOSE r \in SlotReadings(state) :
                                    <<r[1], r[2]>> = k)[3])
                      ELSE None
        IN /\ last.op = "state_update" /\ last.serial = Some(rec.serial)
           /\ rec.lost = {k \in DOMAIN start : now(k) = None}
           /\ \A k \in DOMAIN start :
                 /\ now(k) = None => k \notin DOMAIN rec.tray_usage
                 /\ (now(k) # None /\ start[k] > now(k)[1])
                    => /\ k \in DOMAIN rec.tray_usage
                       /\ rec.tray_usage[k] = start[k] - now(k)[1]

\* A session ended with one tracked slot lost and another one used.
C9_Witness ==
    /\ Len(end_log) = 1
    /\ end_log[1].lost # {}
    /\ end_log[1].tray_usage # <<>>

\* C10: a session that tracks only the virtual tray, at 50 at start and 40
\* at the end, has tray_usage = {(255, 0): 10}; at start and at end the
\* virtual reading is the (255, 0) entry and no AMS slot's.
C10_VirtualTray ==
    /\ \A n \in DOMAIN end_log :
          LET rec == end_log[n]
              state == _previous_states[rec.serial][1]
          IN /\ IsBaselineOf(rec.current_remain, state)
             /\ (/\ rec.session.tray_remain_start = (<<255, 0>> :> 50)
                 /\ VirtualReading(state) = Some(40))
                => rec.tray_usage = (<<255, 0>> :> 10)
    /\ \A d \in Printers :
          (last.op = "state_update" /\ last.kind = "start"
           /\ last.serial = Some(d))
          => IsBaselineOf(_sessions[d][1].tray_remain_start,
                          _previous_states[d][1])

\* A session that tracked only the virtual tray at 50 ended with it at 40
\* while the AMS slots had readings again.
C10_Witness ==
    /\ Len(end_log) = 1
    /\ end_log[1].session.tray_remain_start = (<<255, 0>> :> 50)
    /\ end_log[1].tray_usage = (<<255, 0>> :> 10)
    /\ end_log[1].current_remain[<<255, 0>>] = 40
    /\ DOMAIN end_log[1].current_remain # {<<255, 0>>}

\* C11 as stated: every state handed to on_printer_state_update is handed to
\* the broadcast hub as a printer_state message, whatever on_state_update
\* decided (start, end or nothing).
C11_EveryStateBroadcast ==
    \A d \in Printers :
        (last.op = "state_update" /\ last.serial = Some(d))
        => broadcast_tasks =
              <<[type |-> "printer_state", serial |-> d,
                 state |-> _previous_states[d][1]]>>

\* C12 as stated: a state that arrives on the MQTT thread while the loop runs
\* has its printer_state broadcast, and the usage callback of a session it
\* ended, put on the loop.
C12_SubmittedFromOtherThread ==
    \A d \in Printers :
        (last.op = "state_update" /\ last.serial = Some(d)
         /\ ran_on = "mqtt" /\ started)
        => /\ Len(broadcast_tasks) = 1
           /\ broadcast_tasks[1].type = "printer_state"
           /\ broadcast_tasks[1].serial = d
           /\ \A n \in DOMAIN end_log :
                 end_log[n].tray_usage # <<>> => Len(usage_calls) = 1

\* C13 as stated: _sessions and _previous_states are written on the loop's
\* thread only.
C13_MutatedOnLoopOnly ==
    last.op \in {"state_update", "disconnect"} => ran_on = "loop"

\* C19: a heartbeat sets _display_last_seen to now and leaves the display
\* connected; it makes a device_connected broadcast exactly when the display
\* was not connected before it, and none when it was.
C19_Heartbeat ==
    [][live_last'.op = "heartbeat"
       => /\ _display_last_seen' = clock
          /\ _display_connected'
          /\ Len(SelectSeq(device_tasks',
                           LAMBDA m : m.type = "device_connected"))
                = IF _display_connected THEN 0 ELSE 1]_vars

\* A heartbeat that reconnects a display the periodic check had timed out.
C19_Witness ==
    /\ live_last.op = "heartbeat"
    /\ ~live_last.was_connected
    /\ _display_last_seen > DISPLAY_TIMEOUT_SEC
    /\ device_tasks[1].type = "device_connected"

\* C20: the periodic check turns a connected display disconnected, and makes
\* a device_disconnected broadcast, exactly when the last heartbeat is at
\* least DISPLAY_TIMEOUT_SEC old; otherwise (already disconnected, never
\* seen, or a younger heartbeat) it changes nothing and broadcasts nothing.
\* It never changes anything else of the monitor.
C20_PeriodicCheck ==
    [][live_last'.op = "check"
       => /\ IF /\ _display_connected
                /\ _display_last_seen # 0
                /\ clock - _display_last_seen >= DISPLAY_TIMEOUT_SEC
             THEN /\ ~_display_connected'
                  /\ device_tasks' = <<[type |-> "device_disconnected"]>>
             ELSE /\ _display_connected' = _display_connected
                  /\ device_tasks' = <<>>
          /\ UNCHANGED <<_display_last_seen, _display_pending_command,
                         _display_firmware_version,
                         _device_update_available>>]_vars

\* A check that times the display out exactly DISPLAY_TIMEOUT_SEC after its
\* last heartbeat.
C20_Witness ==
    /\ live_last.op = "check"
    /\ live_last.was_connected
    /\ ~_display_connected
    /\ clock - _display_last_seen = DISPLAY_TIMEOUT_SEC
    /\ device_tasks = <<[type |-> "device_disconnected"]>>

C15_ConsistentSnapshot ==
    /\ bcast.pc # "raised"
    /\ bcast.pc = "done" => bcast.start \subseteq Yielded(bcast.order)

\* C16 as stated: a send that stalls for good keeps no other observer of
\* the broadcast waiting: while the broadcast is suspended in a send to a
\* stalled observer, every other observer registered at its start has
\* already been served.
C16_StallDoesNotBlock ==
    (bcast.pc = "sending" /\ Current(bcast) \in stalled)
    => bcast.start \subseteq Yielded(bcast.order)

\* C17 as stated: the endpoint sends a new observer an initial_state message
\* with the display's liveness and the printers' connection flags, and an
\* observer whose initial send failed is not in the registry.
C17_FailedInitialNotRegistered ==
    /\ hub_last.op = "accept"
       => /\ hub_last.message[1].type = "initial_state"
          /\ hub_last.message[1].device.connected
                = IsDisplayConnected(clock, _display_last_seen)
          /\ DOMAIN hub_last.message[1].printers = printers
    /\ hub_last.op = "initial_failed"
       => hub_last.observer[1] \notin websocket_clients

\* C18: an observer whose endpoint has ended is not in the registry, and
\* the ending of an endpoint whose observer was already removed leaves the
\* registry as it was.
C18_TerminatedUnregistered ==
    [][\A w \in Observers :
          /\ endpoint'[w] = "closed" => w \notin websocket_clients'
          /\ (endpoint[w] # "closed" /\ endpoint'[w] = "closed"
              /\ w \notin websocket_clients)
             => websocket_clients' = websocket_clients]_vars

\* An endpoint ending after a broadcast's failed send had already removed
\* its observer.
C18_Witness ==
    /\ hub_last.op \in {"disconnect", "error"}
    /\ ~hub_last.was_registered
    /\ endpoint[hub_last.observer[1]] = "closed"
    /\ bcast.pc = "done"
    /\ hub_last.observer[1] \in bcast.disconnected

\* C22: a heartbeat and a check falling on the same instant run one after
\* the other, and whichever runs last the display ends the instant
\* connected: while the clock still shows the second of the last heartbeat,
\* the display is connected.
C22_HeartbeatWins ==
    _display_last_seen = clock => _display_connected

\* A check that ran after a heartbeat of the same second and left the
\* display connected.
C22_Witness ==
    /\ live_last.op = "check"
    /\ live_last.was_connected
    /\ _display_last_seen = clock
    /\ _display_connected
    /\ clock > DISPLAY_TIMEOUT_SEC

\* What the mailbox holds after the first i journalled calls.
PendingAfter(i) ==
    IF i = 0 THEN None
    ELSE IF display_log[i].op = "queue" THEN Some(display_log[i].args[1])
    ELSE None

\* C23: the mailbox holds at most one command.  A queue call overwrites
\* whatever is pending, the pop of a heartbeat returns what is pending and
\* clears it, and returns nothing when nothing is pending: every heartbeat
\* returns the command of the call just before it when that was a queue
\* call and nothing otherwise.
C23_Mailbox ==
    /\ \A i \in DOMAIN display_log :
          display_log[i].op = "heartbeat"
          => display_log[i].result = PendingAfter(i - 1)
    /\ _display_pending_command = PendingAfter(Len(display_log))

\* queue("reboot"), queue("update"), a pop that returns "update" and a pop
\* that returns nothing.
C23_Witness ==
    /\ Len(display_log) = 4
    /\ display_log[1] = DisplayLine("queue", <<"reboot">>, None)
    /\ display_log[2] = DisplayLine("queue", <<"update">>, None)
    /\ display_log[3].op = "heartbeat"
    /\ display_log[3].result = Some("update")
    /\ display_log[4].op = "heartbeat"
    /\ display_log[4].result = None

\* Journalled heartbeats that returned a command / journalled queue calls.
Delivering == {i \in DOMAIN display_log : /\ display_log[i].op = "heartbeat"
                                          /\ display_log[i].result # None}
Queueing == {i \in DOMAIN display_log : display_log[i].op = "queue"}

\* C24: a heartbeat response carries at most one command and a queued
\* command is delivered at most once: a heartbeat returns a command only
\* when the call just before it queued one, so a heartbeat on an empty
\* mailbox returns none, and the commands delivered never outnumber the
\* commands queued.
C24_DeliveredAtMostOnce ==
    /\ \A i \in Delivering :
          /\ Len(display_log[i].result) = 1
          /\ i - 1 \in Queueing
          /\ display_log[i].result[1] = display_log[i - 1].args[1]
    /\ Cardinality(Delivering) <= Cardinality(Queueing)

\* A queued command delivered by the next heartbeat and not by the one
\* after it.
C24_Witness ==
    /\ Len(display_log) >= 3
    /\ display_log[1].op = "queue"
    /\ 2 \in Delivering
    /\ display_log[3].op = "heartbeat"
    /\ 3 \notin Delivering

\* C25: a heartbeat broadcasts device_update_available, with the new value,
\* exactly when it carries an update_available flag that differs from the
\* stored one; without the flag, or with the stored value, the stored value
\* stays and nothing is broadcast for it.
C25_UpdateAvailable ==
    [][(Len(display_log') = Len(display_log) + 1
        /\ display_log'[Len(display_log')].op = "heartbeat")
       => LET flag == display_log'[Len(display_log')].args[2]
              events == SelectSeq(device_tasks',
                            LAMBDA m : m.type = "device_update_available")
          IN IF flag # None /\ flag[1] # _device_update_available
             THEN /\ events = <<[type |-> "device_update_available",
                                 update_available |-> flag[1]]>>
                  /\ _device_update_available' = flag[1]
             ELSE /\ events = <<>>
                  /\ _device_update_available'
                        = _device_update_available]_vars

\* A heartbeat carrying update_available = false while true is stored.
C25_Witness ==
    /\ Len(display_log) >= 2
    /\ display_log[Len(display_log)].op = "heartbeat"
    /\ display_log[Len(display_log)].args[2] = Some(FALSE)
    /\ device_tasks # <<>>
    /\ device_tasks[Len(device_tasks)]
          = [type |-> "device_update_available", update_available |-> FALSE]
    /\ ~_device_update_available

\* C26 as stated: once lifespan has finished its shutdown part, no timeout
\* check runs and no device_disconnected is broadcast.
C26_NoCheckAfterShutdown ==
    shutdown = "stopped"
    => /\ live_last.op # "check"
       /\ \A i \in DOMAIN device_tasks :
             device_tasks[i].type # "device_disconnected"

\* C27: a session that ends while no usage callback is set or no event loop
\* is bound hands nothing to the loop, whatever usage it computed; the
\* handler still runs to its end and the session is removed.
C27_MissingCollaborator ==
    \A d \in Printers :
        (/\ last.op = "state_update"
         /\ last.serial = Some(d)
         /\ last.kind = "end"
         /\ (_on_usage_logged = None \/ _loop = None))
        => /\ usage_calls = <<>>
           /\ _sessions[d] = None
           /\ _previous_states[d] # None
           /\ Len(end_log) = IF last.had_session THEN 1 ELSE 0

\* A session with usage ending on a tracker that has a callback but no loop.
C27_Witness ==
    /\ last.op = "state_update"
    /\ last.kind = "end"
    /\ last.had_session
    /\ _on_usage_logged # None
    /\ _loop = None
    /\ Len(end_log) = 1
    /\ end_log[1].tray_usage # <<>>
    /\ usage_calls = <<>>
    /\ _sessions["P1"] = None

\* The journal lines before line i that are about printer d.
EarlierLines(d, i) == {k \in 1..(i - 1) : journal[k].serial = d}

\* What the cache holds for printer d after the journal lines before line
\* i: the state of d's latest snapshot if nothing, or only snapshots,
\* came from d since; nothing after a disconnect or before d's first one.
ArrivedBefore(d, i) ==
    IF EarlierLines(d, i) = {} THEN None
    ELSE LET k == CHOOSE x \in EarlierLines(d, i) :
                      \A y \in EarlierLines(d, i) : y <= x
         IN journal[k].state

\* C28: a printer's snapshot is compared with the snapshot of the same
\* printer that arrived just before it since that printer's last
\* disconnect, or with nothing when there is none; what the other printer
\* sends in between changes neither that nor the cached snapshot.
C28_ArrivalOrder ==
    /\ \A d \in Printers :
          _previous_states[d] = ArrivedBefore(d, Len(journal) + 1)
    /\ (last.op = "state_update" /\ journal # <<>>)
       => compared = <<ArrivedBefore(journal[Len(journal)].serial,
                                     Len(journal))>>

\* P1's FINISH compared with P1's RUNNING although P2 sent a snapshot in
\* between.
C28_Witness ==
    /\ Len(journal) = 3
    /\ journal[1].op = "state_update" /\ journal[1].serial = "P1"
    /\ journal[1].state[1].gcode_state = "RUNNING"
    /\ journal[2].op = "state_update" /\ journal[2].serial = "P2"
    /\ journal[3].op = "state_update" /\ journal[3].serial = "P1"
    /\ journal[3].state[1].gcode_state = "FINISH"
    /\ compared = <<journal[1].state>>
    /\ Len(journal[3].ended) = 1

\* C30 as stated: whenever the latest snapshot of a printer is a FINISH or
\* IDLE one, the printer has no session.
C30_NoSessionInTerminalPhase ==
    \A d \in Printers :
        (/\ _previous_states[d] # None
         /\ _previous_states[d][1].gcode_state \in {"FINISH", "IDLE"})
        => _sessions[d] = None

\* C30, amended: a FINISH or IDLE snapshot removes the printer's session
\* when it follows a RUNNING snapshot, and a FINISH snapshot when it follows
\* a PAUSE snapshot; any other FINISH or IDLE snapshot (IDLE after PAUSE, or
\* the first snapshot after a disconnect) leaves the session as it is.
C30_SessionEndsOnTransition ==
    [][\A d \in Printers :
          (Updated(d) /\ NewState(d).gcode_state \in {"FINISH", "IDLE"})
          => IF \/ PrevGcode(d) = Some("RUNNING")
                \/ (PrevGcode(d) = Some("PAUSE")
                    /\ NewState(d).gcode_state = "FINISH")
             THEN _sessions'[d] = None
             ELSE _sessions'[d] = _sessions[d]]_vars

\* RUNNING, PAUSE, IDLE: the session of the RUNNING snapshot is still there.
C30_Witness ==
    /\ Len(journal) = 3
    /\ IsRunningTransition(1)
    /\ IsUpdate(2, "PAUSE")
    /\ IsUpdate(3, "IDLE")
    /\ _sessions["P1"] # None

\* C21: a heartbeat at time t with none after it is timed out by a turn of
\* the check in [t + DISPLAY_TIMEOUT_SEC, t + DISPLAY_TIMEOUT_SEC +
\* CHECK_PERIOD): the display is never still marked connected once its last
\* heartbeat is DISPLAY_TIMEOUT_SEC + CHECK_PERIOD old.  And the timeout is
\* announced once: the turn that marks it disconnected makes exactly one
\* device_disconnected broadcast, and a turn that finds it disconnected
\* makes none.
C21_TimeoutDetectedOnce ==
    /\ [](_display_connected
            => clock - _display_last_seen
                   < DISPLAY_TIMEOUT_SEC + CHECK_PERIOD)
    /\ [][live_last'.op = "check" /\ live_last' # live_last
            => device_tasks' =
                  IF _display_connected /\ ~_display_connected'
                  THEN <<[type |-> "device_disconnected"]>>
                  ELSE <<>>]_vars

\* The arguments of the estimator call that has returned.
EstimatedPercent == estimate_call[1].remain_percent_used

EstimatedWeight ==
    WithDefault(estimate_call[1].label_weight, DEFAULT_LABEL_WEIGHT)

\* The float 50.0
Fifty == [m |-> <<1, 1, 0, 0, 1, 0>> \o [i \in 1..47 |-> 0], e |-> -47]

\* The floats x and y are equal or next to each other.
WithinOneUlp(x, y) ==
    \/ x = y
    \/ x # Zero /\ NextUp(x) = y
    \/ y # Zero /\ NextUp(y) = x

\* The result does not depend on core_weight, is 0.0 for 0 percent and 50.0
\* for 5 percent of 1000 g.
EstimateBasics ==
    /\ \A c \in CoreWeights :
          EstimateWeightFromPercent(EstimatedPercent, EstimatedWeight,
                                    WithDefault(c, DEFAULT_CORE_WEIGHT))
             = estimate_result[1]
    /\ EstimatedPercent = 0 => estimate_result[1] = Zero
    /\ (EstimatedPercent = 5 /\ EstimatedWeight = 1000)
          => estimate_result[1] = Fifty

\* C29 as stated: the estimator returns percentUsed * declaredFullWeight /
\* 100 (the float of that quotient) for every percentage and weight, 0 for
\* 0 percent and 50 for 5 percent of 1000, whatever the core weight.
C29_ReturnsQuotient ==
    estimate_result # None
    => /\ estimate_result[1]
             = TrueDivide(EstimatedPercent * EstimatedWeight, 100)
       /\ EstimateBasics

\* C29, amended: for a percentage of 0..MaxPercent the estimator returns
\* the float of percentUsed * weight / 100 when the weight is 1000 (the
\* default) or 250, and that float or a neighbour of it when the weight is
\* 750; it returns 0 for 0 percent and 50 for 5 percent of 1000, whatever
\* the core weight.
C29_QuotientUpToRounding ==
    estimate_result # None
    => /\ EstimatedWeight \in {250, 1000}
             => estimate_result[1]
                   = TrueDivide(EstimatedPercent * EstimatedWeight, 100)
       /\ WithinOneUlp(estimate_result[1],
                       TrueDivide(EstimatedPercent * EstimatedWeight, 100))
       /\ EstimateBasics

\* 7 percent of 750 g: the call returned 52.50000000000001, not 52.5.
C29_Witness ==
    /\ estimate_result # None
    /\ EstimatedPercent = 7
    /\ EstimatedWeight = 750
    /\ estimate_result[1] = NextUp(TrueDivide(5250, 100))

\* C31: a RUNNING snapshot that follows a PAUSE snapshot starts a session:
\* the printer's session is then the one captured from that snapshot, with
\* the readings of the resume as its baseline, whatever session the first
\* RUNNING snapshot had made; and the end record of a FINISH or IDLE
\* snapshot that follows the resume carries that baseline, so its usage is
\* counted from the resume.
C31_ResumeStartsSession ==
    \A i \in DOMAIN journal :
        (IsUpdate(i, "PAUSE") /\ IsUpdate(i + 1, "RUNNING"))
        => /\ i + 1 = Len(journal)
              => /\ _sessions[journal[i + 1].serial] # None
                 /\ IsBaselineOf(
                        _sessions[journal[i + 1].serial][1].tray_remain_start,
                        journal[i + 1].state[1])
           /\ (IsUpdate(i + 2, "FINISH") \/ IsUpdate(i + 2, "IDLE"))
              => /\ Len(journal[i + 2].ended) = 1
                 /\ IsBaselineOf(
                        journal[i + 2].ended[1].session.tray_remain_start,
                        journal[i + 1].state[1])
                 /\ IsDeltaOf(journal[i + 2].ended[1].tray_usage,
                              CaptureRemain(journal[i + 1].state[1]),
                              journal[i + 2].ended[1].current_remain)

\* RUNNING at 80, PAUSE, RUNNING at 75: the session's baseline is 75.
C31_Witness ==
    /\ Len(journal) = 3
    /\ IsUpdate(1, "RUNNING") /\ IsUpdate(2, "PAUSE") /\ IsUpdate(3, "RUNNING")
    /\ SlotReadings(journal[1].state[1]) = {<<0, 0, 80>>}
    /\ SlotReadings(journal[3].state[1]) = {<<0, 0, 75>>}
    /\ _sessions["P1"] # None
    /\ _sessions["P1"][1].tray_remain_start[<<0, 0>>] = 75

\* The step just taken was on_printer_disconnect(d).
Disconnected(d) == last'.op = "disconnect" /\ last'.serial = Some(d)

\* C32: a disconnect forgets the previous state of its printer only and
\* leaves every session as it is; the first state of a printer after it is
\* compared with None: a FINISH or IDLE one ends nothing and leaves the
\* sessions alone, a RUNNING one stores a session captured from it in place
\* of whatever session the printer had.
C32_DisconnectForgetsSnapshotOnly ==
    [][\A d \in Printers :
          /\ Disconnected(d)
                => /\ _previous_states'[d] = None
                   /\ \A e \in Printers \ {d} :
                         _previous_states'[e] = _previous_states[e]
                   /\ _sessions' = _sessions
          /\ (Updated(d) /\ PrevGcode(d) = None)
                => /\ compared' = <<None>>
                   /\ NewState(d).gcode_state \in {"FINISH", "IDLE"}
                         => end_log' = <<>> /\ _sessions' = _sessions
                   /\ NewState(d).gcode_state = "RUNNING"
                         => /\ _sessions'[d] # None
                            /\ IsBaselineOf(
                                  _sessions'[d][1].tray_remain_start,
                                  NewState(d))]_vars

\* RUNNING, disconnect, FINISH of P1: its session is still there and
\* nothing ended.
C32_Witness ==
    /\ Len(journal) = 3
    /\ IsUpdate(1, "RUNNING") /\ journal[1].serial = "P1"
    /\ journal[2].op = "disconnect" /\ journal[2].serial = "P1"
    /\ IsUpdate(3, "FINISH") /\ journal[3].serial = "P1"
    /\ journal[3].ended = <<>>
    /\ _sessions["P1"] # None

\* C33: the connected value of a status response and of the initial_state
\* built for a new observer is _display_connected, the state the last
\* device_connected or device_disconnected broadcast announced.
C33_ReportsMonitorState ==
    [][/\ live_last'.op = "status"
          => response'[1].connected = _display_connected'
       /\ \A w \in Observers :
             (endpoint[w] = "idle" /\ endpoint'[w] = "initial")
             => hub_last'.message[1].device.connected
                   = _display_connected']_vars

\* The broadcasts of the given type the step just taken made.
Emitted(type) == Len(SelectSeq(device_tasks', LAMBDA m : m.type = type))

\* C34: device_connected and device_disconnected broadcasts alternate,
\* device_connected first.  The display starts disconnected; a step makes
\* a device_connected broadcast exactly when it turns the display from
\* disconnected to connected and a device_disconnected broadcast exactly
\* when it turns it from connected to disconnected, one at most, so
\* _display_connected always tells which of the two came last.
C34_EventsAlternate ==
    /\ ~_display_connected
    /\ [][/\ Emitted("device_connected") + Emitted("device_disconnected") <= 1
          /\ (Emitted("device_connected") = 1)
                <=> (~_display_connected /\ _display_connected')
          /\ (Emitted("device_disconnected") = 1)
                <=> (_display_connected /\ ~_display_connected')]_vars

\* A heartbeat announces the display connected for the second time: the
\* update flag an earlier heartbeat raised is unchanged, and a timeout has
\* come between the two.
C34_Witness ==
    /\ live_last.op = "heartbeat"
    /\ ~live_last.was_connected
    /\ device_tasks = <<[type |-> "device_connected"]>>
    /\ _device_update_available

\* C35: whatever observers do, the loop of check_display_timeout is never
\* ended and never blocked: once started it is asleep until its next turn,
\* or it awaits a broadcast whose current send is to an observer that still
\* takes what is sent to it.
C35_CheckLoopSurvives ==
    started
    => \/ check_wake # None
       \/ /\ bcast.owner = "checker"
          /\ bcast.pc = "sending"
          /\ Current(bcast) \notin stalled

\* The commands an endpoint may queue, as the display reads them.
QueuedBy(ep) ==
    CASE ep = "reboot" -> {"reboot"}
      [] ep = "update" -> {"update"}
      [] ep = "scale/tare" -> {"scale_tare"}
      [] ep = "scale/calibrate" ->
            {"scale_calibrate:100.0", "scale_calibrate:500.0"}
      [] ep = "scale/reset" -> {"scale_reset"}

\* C36: a command endpoint queues its command, and answers with success,
\* exactly when a heartbeat was seen less than DISPLAY_TIMEOUT_SEC ago,
\* whatever _display_connected says; otherwise it answers 400 and leaves
\* the pending command as it was.
C36_CommandsNeedFreshHeartbeat ==
    [][\A ep \in DeviceEndpoints :
          live_last'.op = ep
          => IF /\ _display_last_seen # 0
                /\ clock - _display_last_seen < DISPLAY_TIMEOUT_SEC
             THEN /\ _display_pending_command' # None
                  /\ _display_pending_command'[1] \in QueuedBy(ep)
                  /\ response'[1].status_code = 200
             ELSE /\ _display_pending_command' = _display_pending_command
                  /\ response'[1].status_code = 400]_vars

\* An endpoint refused its command, and left the one pending, while the
\* periodic check had not yet marked the silent display disconnected.
C36_Witness ==
    /\ live_last.op \in DeviceEndpoints
    /\ live_last.was_connected
    /\ response[1].status_code = 400
    /\ _display_pending_command = Some("scale_calibrate:500.0")

\* C37: only a queued command and the pop of a heartbeat change the pending
\* command: the periodic check, timing out or not, the clock and startup
\* leave it alone, and every heartbeat, the one that reconnects a timed-out
\* display included, returns the command that was pending and leaves none.
C37_PendingSurvivesTimeout ==
    [][/\ _display_pending_command' # _display_pending_command
          => live_last'.op \in DeviceEndpoints \cup {"queue", "heartbeat"}
       /\ live_last'.op = "heartbeat"
          => /\ response'[1].command = _display_pending_command
             /\ _display_pending_command' = None]_vars

\* The heartbeat that reconnects a timed-out display returns the reboot
\* command queued while the display was still connected.
C37_Witness ==
    /\ live_last.op = "heartbeat"
    /\ ~live_last.was_connected
    /\ response[1].command = Some("reboot")
    /\ _display_pending_command = None

C39_SecondApplyRejected ==
    [][(update_last'.step = "apply" /\ background_tasks # <<>>)
       => /\ update_response' =
                Some([status_code |-> 409,
                      detail |-> "Update already in progress"])
          /\ background_tasks' = background_tasks]_vars

====
